---- MODULE Spec2Model ----
(***************************************************************************)
(* Model of the Figma-to-code analysis pipeline:                           *)
(*   SemanticGroupingService.groupComponents   (group())                   *)
(*   GPTVisionService.analyzeSemanticGroups    (validate())                *)
(*   FigmaToCodeProcessor.startFigmaProcessing (one pipeline run)          *)
(*                                                                         *)
(* Conventions.                                                            *)
(*  - A confidence is an integer number of tenths (0.1 = 1, 1.0 = 10).     *)
(*  - An optional JSON field is a sequence: <<>> when the field is absent  *)
(*    (undefined), <<v>> when it carries v.                                *)
(*  - A descriptor object is identified by its position in the run's       *)
(*    descriptor list (JavaScript object identity); its id is a field.     *)
(*  - A function that can throw returns [ok |-> FALSE]; a normal return    *)
(*    is [ok |-> TRUE, val |-> v].                                         *)
(***************************************************************************)
EXTENDS Integers, Sequences, FiniteSets, TLC

VARIABLES
  components,   \* ComponentAnalysis[] of the run (enhancedFigmaData.components)
  pc,           \* position of the run inside startFigmaProcessing
  groupCall,    \* outcome of the reasoning-model request of group()
  grouping,     \* SemanticGroupingResult returned by group(), or NoResult
  probeCall,    \* outcome of the request of testGPTVisionAPI
  visionCall,   \* outcome of the vision-model request of validate()
  analysis,     \* GPTVisionAnalysis returned by validate(), or NoResult
  activeStep,   \* React state activeStep
  isProcessing, \* React state isProcessing
  error,        \* React state error ("" when none)
  screenStatus, \* status the run wrote to the screen record
  groupRequests,  \* fetches issued to the reasoning model (gpt-3.5-turbo)
  visionRequests, \* fetches issued to the vision model (gpt-4o)
  designTokens, \* enhancedFigmaData.designTokens
  assetUrls,    \* enhancedFigmaData.assetUrls: the node ids that have a URL
  styleMapping, \* React state styleMapping (styleMap), or NoResult
  mapLog,       \* the calls of mapComponentsToMui so far: arguments and output
  runs,         \* positions of the invocations of startFigmaProcessing
  figmaFile,    \* the FigmaFile given to analyzeFileStructure, or NoResult
  autoMap,      \* the call of autoMapComponentsToGroups: groups before, after
  clusters,     \* Ok(what findSpatialClusters returned), or NoResult
  verticalSections, \* Ok(what identifyVerticalSections returned), or NoResult
  stageDebugger \* React state of the StageDebugger component

vars == <<components, pc, groupCall, grouping, probeCall, visionCall, analysis,
          activeStep, isProcessing, error, screenStatus, groupRequests,
          visionRequests, designTokens, assetUrls, styleMapping, mapLog, runs,
                 figmaFile, autoMap, clusters, verticalSections, stageDebugger>>

----------------------------------------------------------------------------
(* Bounds of the model *)

\* longest descriptor list given to group() on its own
MaxNodes == 20
\* longest descriptor list of a full pipeline run
MaxRunNodes == 1
\* longest descriptor list of a run whose termination is checked
MaxLiveNodes == 1
\* most groups in one response of such a run
MaxLiveGroups == 1
\* most groups in one reasoning-model response
MaxGroups == 2

----------------------------------------------------------------------------
(* Generic helpers *)

None == <<>>
Some(v) == <<v>>

Min(a, b) == IF a < b THEN a ELSE b
Max(a, b) == IF a > b THEN a ELSE b
Abs(a) == IF a < 0 THEN -a ELSE a

Thrown == [ok |-> FALSE]
Ok(v) == [ok |-> TRUE, val |-> v]

NoResult == [none |-> TRUE]

\* the single-function variables and the StageDebugger before any use
NoDebugger ==
  [figmaData |-> <<>>, semanticGrouping |-> <<>>, gptAnalysis |-> <<>>,
   isLoading |-> FALSE, error |-> "", pending |-> "none"]
OtherComponentsIdle ==
  /\ figmaFile = NoResult
  /\ autoMap = NoResult
  /\ clusters = NoResult
  /\ verticalSections = NoResult
  /\ stageDebugger = NoDebugger

\* try { return attempt } catch { return fallback }
tryCatch(attempt, fallback) == IF attempt.ok THEN attempt ELSE Ok(fallback)

Range(s) == {s[i] : i \in 1..Len(s)}

\* Array.prototype.slice(from0) / slice(0, to0) with 0-based bounds
SliceFrom(s, from0) == SubSeq(s, from0 + 1, Len(s))
SliceTo(s, to0) == SubSeq(s, 1, Min(to0, Len(s)))

----------------------------------------------------------------------------
(* Strings: a string is a key of StrChars, which gives its characters.     *)

StrChars ==
  [s \in {"Payment", "Back", "Visa", "Total", "$96", "Pay Button", "Misc",
          "Total Display", "Header Section", "Payment Methods Section",
          "Primary Action Button", "Promo", "Unnamed Group", "header section",
          "payment methods section", "total display", "primary action button",
          "payment", "back", "cash", "visa", "mastercard", "paypal", "add",
          "card", "total", "96", "pay", "confirm", "button", "btn", "add new",
          "method", "text", "title", "primary", "select payment method",
          "ff7f00", "ff8c00", "ffffff", "000000", "#ff7f00", "#ffffff",
          "#1a1a1a"} |->
     CASE s = "Payment" ->
            <<"P","a","y","m","e","n","t">>
       [] s = "Back" ->
            <<"B","a","c","k">>
       [] s = "Visa" ->
            <<"V","i","s","a">>
       [] s = "Total" ->
            <<"T","o","t","a","l">>
       [] s = "$96" ->
            <<"$","9","6">>
       [] s = "Pay Button" ->
            <<"P","a","y"," ","B","u","t","t","o","n">>
       [] s = "Misc" ->
            <<"M","i","s","c">>
       [] s = "Total Display" ->
            <<"T","o","t","a","l"," ","D","i","s","p","l","a","y">>
       [] s = "Header Section" ->
            <<"H","e","a","d","e","r"," ","S","e","c","t","i","o","n">>
       [] s = "Payment Methods Section" ->
            <<"P","a","y","m","e","n","t"," ","M","e","t","h","o","d","s"," ","S","e","c","t","i","o","n">>
       [] s = "Primary Action Button" ->
            <<"P","r","i","m","a","r","y"," ","A","c","t","i","o","n"," ","B","u","t","t","o","n">>
       [] s = "Promo" ->
            <<"P","r","o","m","o">>
       [] s = "Unnamed Group" ->
            <<"U","n","n","a","m","e","d"," ","G","r","o","u","p">>
       [] s = "header section" ->
            <<"h","e","a","d","e","r"," ","s","e","c","t","i","o","n">>
       [] s = "payment methods section" ->
            <<"p","a","y","m","e","n","t"," ","m","e","t","h","o","d","s"," ","s","e","c","t","i","o","n">>
       [] s = "total display" ->
            <<"t","o","t","a","l"," ","d","i","s","p","l","a","y">>
       [] s = "primary action button" ->
            <<"p","r","i","m","a","r","y"," ","a","c","t","i","o","n"," ","b","u","t","t","o","n">>
       [] s = "payment" ->
            <<"p","a","y","m","e","n","t">>
       [] s = "back" ->
            <<"b","a","c","k">>
       [] s = "cash" ->
            <<"c","a","s","h">>
       [] s = "visa" ->
            <<"v","i","s","a">>
       [] s = "mastercard" ->
            <<"m","a","s","t","e","r","c","a","r","d">>
       [] s = "paypal" ->
            <<"p","a","y","p","a","l">>
       [] s = "add" ->
            <<"a","d","d">>
       [] s = "card" ->
            <<"c","a","r","d">>
       [] s = "total" ->
            <<"t","o","t","a","l">>
       [] s = "96" ->
            <<"9","6">>
       [] s = "pay" ->
            <<"p","a","y">>
       [] s = "confirm" ->
            <<"c","o","n","f","i","r","m">>
       [] s = "button" ->
            <<"b","u","t","t","o","n">>
       [] s = "btn" ->
            <<"b","t","n">>
       [] s = "add new" ->
            <<"a","d","d"," ","n","e","w">>
       [] s = "method" ->
            <<"m","e","t","h","o","d">>
       [] s = "text" ->
            <<"t","e","x","t">>
       [] s = "title" ->
            <<"t","i","t","l","e">>
       [] s = "primary" ->
            <<"p","r","i","m","a","r","y">>
       [] s = "select payment method" ->
            <<"s","e","l","e","c","t"," ","p","a","y","m","e","n","t"," ","m","e","t","h","o","d">>
       [] s = "ff7f00" ->
            <<"f","f","7","f","0","0">>
       [] s = "ff8c00" ->
            <<"f","f","8","c","0","0">>
       [] s = "ffffff" ->
            <<"f","f","f","f","f","f">>
       [] s = "000000" ->
            <<"0","0","0","0","0","0">>
       [] s = "#ff7f00" ->
            <<"#","f","f","7","f","0","0">>
       [] s = "#ffffff" ->
            <<"#","f","f","f","f","f","f">>
       [] s = "#1a1a1a" ->
            <<"#","1","a","1","a","1","a">>]

UpperLetters == <<"A","B","D","G","H","M","P","S","T","U","V">>
LowerLetters == <<"a","b","d","g","h","m","p","s","t","u","v">>

\* String.prototype.toLowerCase on one character
LowerChar(c) ==
  IF \E i \in 1..Len(UpperLetters) : UpperLetters[i] = c
  THEN LowerLetters[CHOOSE i \in 1..Len(UpperLetters) : UpperLetters[i] = c]
  ELSE c

\* String.prototype.toLowerCase, on the characters of a string
toLowerCase(cs) == [i \in 1..Len(cs) |-> LowerChar(cs[i])]

\* String.prototype.includes, on characters
includes(cs, sub) ==
  \E i \in 1..(Len(cs) - Len(sub) + 1) : SubSeq(cs, i, i + Len(sub) - 1) = sub

\* s.toLowerCase() for every string of the model
LowerOf == [s \in DOMAIN StrChars |-> toLowerCase(StrChars[s])]

\* s.toLowerCase().includes(k) and s.includes(k), tabulated
LowerIncludesOf ==
  [s \in DOMAIN StrChars |->
     [k \in DOMAIN StrChars |-> includes(LowerOf[s], StrChars[k])]]
IncludesOf ==
  [s \in DOMAIN StrChars |->
     [k \in DOMAIN StrChars |-> includes(StrChars[s], StrChars[k])]]

\* s.toLowerCase().includes(k)
lowerIncludes(s, k) == LowerIncludesOf[s][k]

\* x?.toLowerCase().includes(k) of an optional string: falsy when absent
optLowerIncludes(opt, k) == opt # None /\ LowerIncludesOf[opt[1]][k]

\* x?.includes(k) of an optional string
optIncludes(opt, k) == opt # None /\ IncludesOf[opt[1]][k]

----------------------------------------------------------------------------
(* Descriptors (ComponentAnalysis) *)

\* the node kinds a descriptor list is drawn from, with geometry and text
Archetypes == <<
  [type |-> "TEXT", name |-> "Payment", characters |-> Some("Payment"),
   bounds |-> [x |-> 100, y |-> 50, width |-> 120, height |-> 30],
   fills |-> TRUE],
  [type |-> "INSTANCE", name |-> "Back", characters |-> None,
   bounds |-> [x |-> 24, y |-> 50, width |-> 45, height |-> 45],
   fills |-> FALSE],
  [type |-> "RECTANGLE", name |-> "Visa", characters |-> None,
   bounds |-> [x |-> 24, y |-> 200, width |-> 327, height |-> 80],
   fills |-> TRUE],
  [type |-> "TEXT", name |-> "Total", characters |-> Some("$96"),
   bounds |-> [x |-> 300, y |-> 420, width |-> 60, height |-> 30],
   fills |-> TRUE],
  [type |-> "RECTANGLE", name |-> "Pay Button", characters |-> None,
   bounds |-> [x |-> 24, y |-> 520, width |-> 327, height |-> 62],
   fills |-> TRUE],
  [type |-> "GROUP", name |-> "Misc", characters |-> None,
   bounds |-> [x |-> 30, y |-> 700, width |-> 50, height |-> 50],
   fills |-> FALSE] >>

\* the i-th descriptor of a list that starts at archetype shift+1; with dup,
\* the second descriptor carries the id of the first
Descriptor(i, shift, dup) ==
  LET a == Archetypes[((i - 1 + shift) % Len(Archetypes)) + 1]
  IN  [id |-> IF dup /\ i = 2 THEN 1 ELSE i,
       name |-> a.name, type |-> a.type, bounds |-> a.bounds,
       characters |-> a.characters, fills |-> a.fills]

DescriptorList(n, shift, dup) == [i \in 1..n |-> Descriptor(i, shift, dup)]

\* the descriptor lists of at most maxN descriptors that start at one of the
\* given archetypes
DescriptorLists(maxN, shifts, dups) ==
  {DescriptorList(n, shift, dup) : n \in 0..maxN, shift \in shifts, dup \in dups}

\* extract() gives the descriptors of a document, whose node ids are distinct
ExtractedLists ==
  DescriptorLists(MaxRunNodes, 0..(Len(Archetypes) - 1), {FALSE})

\* the documents of the runs whose termination is checked
LiveLists == DescriptorLists(MaxLiveNodes, {0}, {FALSE})

\* the lists group() is called with on its own: any length up to MaxNodes,
\* also with a repeated id
GroupInputLists == DescriptorLists(MaxNodes, {0}, BOOLEAN)

\* an id that matches no descriptor of any run
UnknownId == MaxNodes + 100

----------------------------------------------------------------------------
(* SemanticGroupingService *)

DefaultConfidence == 7
MinConfidence == 1
MaxConfidence == 10
FallbackConfidence == 5
FallbackGroupLimit == 15
DefaultGroupBounds == [x |-> 0, y |-> 0, width |-> 100, height |-> 50]

\* `c || 0.7`: an absent or zero confidence is falsy
orDefault(opt, default) == IF opt = None \/ opt[1] = 0 THEN default ELSE opt[1]

\* clampConfidence without its lower clamp: Math.min(1.0, c || 0.7)
clampConfidence_noFloor(opt) ==
  Min(MaxConfidence, orDefault(opt, DefaultConfidence))

\* Math.max(0.1, Math.min(1.0, c || 0.7))
clampConfidence(opt) ==
  Max(MinConfidence, Min(MaxConfidence, orDefault(opt, DefaultConfidence)))

\* allComponents.find(comp => comp.id === id): the first descriptor with the id
findById(id, allComponents) ==
  IF \E i \in 1..Len(allComponents) : allComponents[i].id = id
  THEN Some(CHOOSE i \in 1..Len(allComponents) :
              /\ allComponents[i].id = id
              /\ \A j \in 1..(i - 1) : allComponents[j].id # id)
  ELSE None

RECURSIVE findChildrenByIds(_, _)
\* childIds.map(find).filter(defined): unresolved ids are dropped, order and
\* repetitions are kept
findChildrenByIds(childIds, allComponents) ==
  IF childIds = <<>> THEN <<>>
  ELSE findById(Head(childIds), allComponents)
         \o findChildrenByIds(Tail(childIds), allComponents)

\* mapTypeToSemantic
mapTypeToSemantic(figmaType) ==
  CASE figmaType = "TEXT" -> "text"
    [] figmaType \in {"RECTANGLE", "FRAME", "GROUP"} -> "container"
    [] OTHER -> "other"

\* the 'header section' filter of autoMapComponentsToGroups
isHeaderComponent(comp) ==
  LET isTopArea == comp.bounds.y < 150
      isHeaderText == /\ comp.type = "TEXT"
                      /\ optLowerIncludes(comp.characters, "payment")
      isBackButton == \/ lowerIncludes(comp.name, "back")
                      \/ comp.type = "INSTANCE"
  IN  isTopArea /\ (isHeaderText \/ isBackButton)

\* the 'payment methods section' filter
isPaymentComponent(comp) ==
  LET isPaymentButton ==
        \E k \in {"cash", "visa", "mastercard", "paypal"} :
           lowerIncludes(comp.name, k)
      isPaymentText ==
        /\ comp.type = "TEXT"
        /\ \E k \in {"cash", "visa", "mastercard", "paypal", "add", "card"} :
              optLowerIncludes(comp.characters, k)
      isMiddleArea == comp.bounds.y >= 150 /\ comp.bounds.y < 400
  IN  isMiddleArea /\ (\/ isPaymentButton
                       \/ isPaymentText
                       \/ comp.type = "RECTANGLE"
                       \/ comp.type = "INSTANCE")

\* the 'total display' filter
isTotalComponent(comp) ==
  LET hasTotalText == \/ optLowerIncludes(comp.characters, "total")
                      \/ optIncludes(comp.characters, "$96")
                      \/ optIncludes(comp.characters, "96")
      isTotalLabel == comp.type = "TEXT" /\ hasTotalText
      isBottomMiddle == comp.bounds.y >= 400 /\ comp.bounds.y < 500
  IN  isBottomMiddle /\ (isTotalLabel \/ (comp.type = "TEXT" /\ comp.bounds.width < 200))

\* the 'primary action button' filter
isActionComponent(comp) ==
  LET isPayButton == \/ optLowerIncludes(comp.characters, "pay")
                     \/ optLowerIncludes(comp.characters, "confirm")
                     \/ lowerIncludes(comp.name, "pay")
                     \/ lowerIncludes(comp.name, "button")
      isBottomArea == comp.bounds.y >= 500
      isWideButton == comp.bounds.width > 200
  IN  isBottomArea /\ (isPayButton \/ isWideButton)

NearbyDistance == 100
NearbyLimit == 3

\* the default filter: top-left corners less than 100px apart (|dx| + |dy|)
isNearbyComponent(group, comp) ==
  Abs(comp.bounds.x - group.bounds.x) + Abs(comp.bounds.y - group.bounds.y)
    < NearbyDistance

\* the switch of autoMapComponentsToGroups: the descriptors (positions in
\* allComponents) of the pool that an empty group claims
mappedComponentsFor(group, availableComponents, allComponents) ==
  LET name == LowerOf[group.name]
      pick(Test(_)) ==
        SelectSeq(availableComponents, LAMBDA c : Test(allComponents[c]))
      nearby == SelectSeq(availableComponents,
                          LAMBDA c : isNearbyComponent(group, allComponents[c]))
  IN  CASE name = StrChars["header section"] -> pick(isHeaderComponent)
        [] name = StrChars["payment methods section"] -> pick(isPaymentComponent)
        [] name = StrChars["total display"] -> pick(isTotalComponent)
        [] name = StrChars["primary action button"] -> pick(isActionComponent)
        [] OTHER -> SliceTo(nearby, NearbyLimit)

RECURSIVE autoMapFrom_keepsPool(_, _, _, _)
\* autoMapComponentsToGroups without the splice: a claimed descriptor stays
\* in availableComponents
autoMapFrom_keepsPool(groups, i, availableComponents, allComponents) ==
  IF i > Len(groups) THEN groups
  ELSE IF groups[i].children # <<>>
       THEN autoMapFrom_keepsPool(groups, i + 1, availableComponents,
                                  allComponents)
       ELSE autoMapFrom_keepsPool(
              [groups EXCEPT ![i].children =
                 mappedComponentsFor(groups[i], availableComponents,
                                     allComponents)],
              i + 1, availableComponents, allComponents)

RECURSIVE autoMapFrom(_, _, _, _)
\* groups.forEach of autoMapComponentsToGroups from group i on, with the pool
\* as the earlier groups left it
autoMapFrom(groups, i, availableComponents, allComponents) ==
  IF i > Len(groups) THEN groups
  ELSE IF groups[i].children # <<>>
       THEN autoMapFrom(groups, i + 1, availableComponents, allComponents)
       ELSE LET mapped == mappedComponentsFor(groups[i], availableComponents,
                                              allComponents)
                rest == SelectSeq(availableComponents,
                                  LAMBDA c : c \notin Range(mapped))
            IN  autoMapFrom([groups EXCEPT ![i].children = mapped], i + 1, rest,
                            allComponents)

\* autoMapComponentsToGroups: the pool starts as a copy of all descriptors
autoMapComponentsToGroups(groups, allComponents) ==
  autoMapFrom(groups, 1, [i \in 1..Len(allComponents) |-> i], allComponents)

RECURSIVE poolAfterAutoMap(_, _, _, _)
\* availableComponents as groups.forEach leaves it: every claimed descriptor
\* is spliced out
poolAfterAutoMap(groups, i, availableComponents, allComponents) ==
  IF i > Len(groups) THEN availableComponents
  ELSE IF groups[i].children # <<>>
       THEN poolAfterAutoMap(groups, i + 1, availableComponents, allComponents)
       ELSE LET mapped == mappedComponentsFor(groups[i], availableComponents,
                                              allComponents)
            IN  poolAfterAutoMap(groups, i + 1,
                  SelectSeq(availableComponents,
                            LAMBDA c : c \notin Range(mapped)),
                  allComponents)

\* the caller's array if the pool were that array itself and not a copy:
\* const availableComponents = components
componentsAfterAutoMap_sharedPool(groups, allComponents) ==
  LET pool == poolAfterAutoMap(groups, 1,
                [i \in 1..Len(allComponents) |-> i], allComponents)
  IN  [k \in 1..Len(pool) |-> allComponents[pool[k]]]

\* the caller's array after autoMapComponentsToGroups: the splices hit the
\* copy [...components], and no descriptor is written to
componentsAfterAutoMap(groups, allComponents) == allComponents

\* one element of result.groups turned into a SemanticGroup; rnd is the value
\* Math.random() returns for it
enhanceGroup(group, rnd, allComponents) ==
  [id |-> IF group.id = None THEN [src |-> "random", v |-> rnd]
          ELSE [src |-> "model", v |-> group.id[1]],
   name |-> IF group.name = None THEN "Unnamed Group" ELSE group.name[1],
   type |-> IF group.type = None THEN "other" ELSE group.type[1],
   bounds |-> IF group.bounds = None THEN DefaultGroupBounds ELSE group.bounds[1],
   children |-> findChildrenByIds(group.children, allComponents),
   confidence |-> clampConfidence(group.confidence)]

\* the ids of the descriptors held by some group
groupedNodeIds(groups, allComponents) ==
  {allComponents[c].id : c \in UNION {Range(groups[i].children) : i \in 1..Len(groups)}}

\* validateAndEnhanceResult; result is the parsed JSON of the response.
\* Reading a property of the JSON value null throws.
validateAndEnhanceResult(result, rnd, originalComponents) ==
  IF result.kind = "null" THEN Thrown
  ELSE
    LET raw == IF result.groups = None THEN <<>> ELSE result.groups[1]
        mapped == [i \in 1..Len(raw) |->
                     enhanceGroup(raw[i], <<rnd, i>>, originalComponents)]
        groups == IF \E i \in 1..Len(mapped) : mapped[i].children = <<>>
                  THEN autoMapComponentsToGroups(mapped, originalComponents)
                  ELSE mapped
        ids == groupedNodeIds(groups, originalComponents)
        ungroupedNodes == SelectSeq([i \in 1..Len(originalComponents) |-> i],
                                    LAMBDA c : originalComponents[c].id \notin ids)
    IN  Ok([groups |-> groups,
            totalNodes |-> Len(originalComponents),
            groupedNodes |-> Len(originalComponents) - Len(ungroupedNodes),
            ungroupedNodes |-> ungroupedNodes,
            confidence |-> clampConfidence(result.confidence)])

\* the group createFallbackResult builds around one descriptor
fallbackGroup(c, allComponents) ==
  LET comp == allComponents[c]
  IN  [id |-> [src |-> "fallback", v |-> comp.id],
       name |-> comp.name,
       type |-> mapTypeToSemantic(comp.type),
       bounds |-> comp.bounds,
       children |-> <<c>>,
       confidence |-> FallbackConfidence]

\* createFallbackResult counting the groups before they are limited:
\* groupedNodes: groups.length
createFallbackResult_countsBeforeLimit(allComponents) ==
  LET groups == [c \in 1..Len(allComponents) |-> fallbackGroup(c, allComponents)]
  IN  [groups |-> SliceTo(groups, FallbackGroupLimit),
       totalNodes |-> Len(allComponents),
       groupedNodes |-> Len(groups),
       ungroupedNodes |-> SliceFrom([i \in 1..Len(allComponents) |-> i],
                                    FallbackGroupLimit),
       confidence |-> FallbackConfidence]

\* createFallbackResult cutting the ungrouped list one descriptor late:
\* components.slice(16)
createFallbackResult_lateSlice(allComponents) ==
  LET groups == [c \in 1..Len(allComponents) |-> fallbackGroup(c, allComponents)]
  IN  [groups |-> SliceTo(groups, FallbackGroupLimit),
       totalNodes |-> Len(allComponents),
       groupedNodes |-> Min(FallbackGroupLimit, Len(allComponents)),
       ungroupedNodes |-> SliceFrom([i \in 1..Len(allComponents) |-> i],
                                    FallbackGroupLimit + 1),
       confidence |-> FallbackConfidence]

\* createFallbackResult: one group per descriptor whose id was not seen before
createFallbackResult(allComponents) ==
  LET firstOfId == SelectSeq([i \in 1..Len(allComponents) |-> i],
                     LAMBDA c : \A j \in 1..(c - 1) :
                                   allComponents[j].id # allComponents[c].id)
      groups == [k \in 1..Len(firstOfId) |-> fallbackGroup(firstOfId[k], allComponents)]
  IN  [groups |-> SliceTo(groups, FallbackGroupLimit),
       totalNodes |-> Len(allComponents),
       groupedNodes |-> Min(FallbackGroupLimit, Len(allComponents)),
       ungroupedNodes |-> SliceFrom([i \in 1..Len(allComponents) |-> i],
                                    FallbackGroupLimit),
       confidence |-> FallbackConfidence]

\* groupComponents with validateAndEnhanceResult called outside the try block
groupComponents_uncaughtValidation(call, result, rnd, figmaComponents) ==
  IF call = "ok"
  THEN validateAndEnhanceResult(result, rnd, figmaComponents)
  ELSE Ok(createFallbackResult(figmaComponents))

\* groupComponents treating a child id that matches no descriptor as an
\* invalid response: the lookup throws and the catch returns the fallback
groupComponents_rejectsUnknownIds(call, result, rnd, figmaComponents) ==
  IF /\ call = "ok" /\ result.kind = "object" /\ result.groups # None
     /\ \E i \in 1..Len(result.groups[1]) :
           \E k \in 1..Len(result.groups[1][i].children) :
              findById(result.groups[1][i].children[k], figmaComponents) = None
  THEN Ok(createFallbackResult(figmaComponents))
  ELSE IF call = "ok"
  THEN tryCatch(validateAndEnhanceResult(result, rnd, figmaComponents),
                createFallbackResult(figmaComponents))
  ELSE Ok(createFallbackResult(figmaComponents))

\* groupComponents once the request has ended with outcome call:
\* "transport" (fetch rejects), "status" (!response.ok), "parse" (JSON.parse
\* or reading the body throws), "ok" (result is the parsed object)
groupComponents(call, result, rnd, figmaComponents) ==
  IF call = "ok"
  THEN tryCatch(validateAndEnhanceResult(result, rnd, figmaComponents),
                createFallbackResult(figmaComponents))
  ELSE Ok(createFallbackResult(figmaComponents))

\* figmaComponents as groupComponents leaves it: only the repair of empty
\* groups handles the array after the prompt was built from it
componentsAfterGroup(call, result, rnd, figmaComponents) ==
  IF call = "ok" /\ result.kind = "object" /\ result.groups # None
  THEN LET raw == result.groups[1]
           mapped == [i \in 1..Len(raw) |->
                        enhanceGroup(raw[i], <<rnd, i>>, figmaComponents)]
       IN  IF \E i \in 1..Len(mapped) : mapped[i].children = <<>>
           THEN componentsAfterAutoMap(mapped, figmaComponents)
           ELSE figmaComponents
  ELSE figmaComponents

\* the message content of a response, as its parts: the JSON text, alone or
\* inside a markdown code fence. Fence is the three-backtick marker, FenceJson
\* the marker followed by the word json.
JsonText == "json-text"
Fence == "fence"
FenceJson == "fence json"
FenceOpeners == {FenceJson, Fence}
FenceCloser == Fence
fencedContent(opener) == <<opener, JsonText, FenceCloser>>

\* JSON.parse(content): content must be JSON text and nothing else; value is
\* what the JSON text denotes
jsonParse(content, value) ==
  IF content = <<JsonText>> THEN Ok(value) ELSE Thrown

\* the two replace calls of analyzeSemanticGroups: a leading marker with the
\* word json is removed, then a trailing marker
stripFence(content) ==
  LET head == IF content # <<>> /\ Head(content) = FenceJson
              THEN Tail(content) ELSE content
  IN  IF head # <<>> /\ head[Len(head)] = FenceCloser
      THEN SubSeq(head, 1, Len(head) - 1) ELSE head

----------------------------------------------------------------------------
(* Inputs: what the reasoning model can answer *)

\* the shapes of one element of result.groups
ResponseGroups == {
  [id |-> Some("g-total"), name |-> Some("Total Display"), type |-> Some("text"),
   bounds |-> None, children |-> <<>>, confidence |-> None],
  [id |-> None, name |-> None, type |-> None,
   bounds |-> Some([x |-> 20, y |-> 45, width |-> 200, height |-> 60]),
   children |-> <<>>, confidence |-> Some(-3)],
  [id |-> Some("g-pay"), name |-> Some("Payment Methods Section"),
   type |-> Some("card"), bounds |-> None,
   children |-> <<1, 2>>, confidence |-> Some(0)],
  [id |-> Some("g-promo"), name |-> Some("Promo"), type |-> Some("image"),
   bounds |-> Some([x |-> 2000, y |-> 2000, width |-> 10, height |-> 10]),
   children |-> <<UnknownId>>, confidence |-> Some(4)],
  [id |-> Some("g-action"), name |-> Some("Primary Action Button"),
   type |-> Some("button"), bounds |-> None,
   children |-> <<2, 2>>, confidence |-> Some(25)] }

\* the confidences a response can carry: absent, negative, zero, in range,
\* above 1
ResponseConfidences == {None, Some(-3), Some(0), Some(4), Some(25)}

\* the parsed JSON values of a response: null, an object without groups, an
\* object with at most maxG groups
ResponsesOf(maxG) ==
  {[kind |-> "null"]}
  \cup {[kind |-> "object", groups |-> None, confidence |-> c] :
          c \in ResponseConfidences}
  \cup {[kind |-> "object", groups |-> Some(gs), confidence |-> c] :
          gs \in UNION {[1..k -> ResponseGroups] : k \in 0..maxG},
          c \in ResponseConfidences}

GroupingResponses == ResponsesOf(MaxGroups)

\* the responses of the runs whose termination is checked
LiveResponses == ResponsesOf(MaxLiveGroups)

\* the values Math.random() is taken to return
RandomDraws == {1, 2}

\* whether validateAndEnhanceResult calls Math.random() on the response
usesRandom(result) ==
  /\ result.kind = "object"
  /\ result.groups # None
  /\ \E i \in 1..Len(result.groups[1]) : result.groups[1][i].id = None

----------------------------------------------------------------------------
(* GPTVisionService *)

VisionFallbackFloor == 6
VisionDefaultConfidence == 7

\* getFallbackMaterialUIMappingForGroup
getFallbackMaterialUIMappingForGroup(groupType) ==
  CASE groupType = "button" -> [component |-> "Button"]
    [] groupType = "text" -> [component |-> "Typography"]
    [] groupType = "card" -> [component |-> "Card"]
    [] groupType = "navigation" -> [component |-> "AppBar"]
    [] groupType = "input" -> [component |-> "TextField"]
    [] groupType = "list" -> [component |-> "List"]
    [] groupType = "image" -> [component |-> "Avatar"]
    [] groupType = "container" -> [component |-> "Box"]
    [] OTHER -> [component |-> "Box"]

\* the component createFallbackAnalysis builds from one group
fallbackComponent(group, allComponents) ==
  [id |-> group.id,
   type |-> group.type,
   name |-> group.name,
   bounds |-> group.bounds,
   materialUIMapping |-> Some(getFallbackMaterialUIMappingForGroup(group.type)),
   figmaNodeId |-> IF group.children = <<>> THEN None
                   ELSE Some(allComponents[group.children[1]].id)]

\* extractColorPaletteFromGroups calls this.extractColor for every member
\* descriptor that has fills; GPTVisionService defines no extractColor, so the
\* call throws a TypeError. Without such a member no color is collected.
extractColorPaletteFromGroups(groups, allComponents) ==
  IF \E i \in 1..Len(groups) :
        \E k \in 1..Len(groups[i].children) :
           allComponents[groups[i].children[k]].fills
  THEN Thrown
  ELSE Ok(<<>>)

\* createFallbackAnalysis: one component per group, then the design system
\* from the groups' members, then the confidence
createFallbackAnalysis(semanticGrouping, allComponents) ==
  LET comps == [i \in 1..Len(semanticGrouping.groups) |->
                  fallbackComponent(semanticGrouping.groups[i], allComponents)]
      colors == extractColorPaletteFromGroups(semanticGrouping.groups, allComponents)
  IN  IF ~colors.ok THEN Thrown
      ELSE Ok([components |-> comps,
               confidence |-> Max(VisionFallbackFloor, semanticGrouping.confidence)])

\* analyzeSemanticGroups once the request has ended with outcome call:
\* "transport", "status", "parse", or "ok" with the parsed JSON value.
\* Reading analysis.components of the JSON value null throws inside the try.
analyzeSemanticGroups(call, response, semanticGrouping, allComponents) ==
  IF call = "ok" /\ response.kind = "object"
  THEN Ok([components |-> IF response.components = None THEN <<>>
                          ELSE response.components[1],
           confidence |-> orDefault(response.confidence, VisionDefaultConfidence)])
  ELSE createFallbackAnalysis(semanticGrouping, allComponents)

----------------------------------------------------------------------------
(* Inputs: what the vision model can answer *)

\* a component of the response that carries its mapping, and one that omits it
MappedVisionComponent ==
  [id |-> [src |-> "model", v |-> "g-total"], type |-> "text", name |-> "Total",
   bounds |-> [x |-> 300, y |-> 420, width |-> 60, height |-> 30],
   materialUIMapping |-> Some([component |-> "Typography"]),
   figmaNodeId |-> None]
UnmappedVisionComponent ==
  [id |-> [src |-> "model", v |-> "back-button"], type |-> "button",
   name |-> "Back",
   bounds |-> [x |-> 24, y |-> 50, width |-> 45, height |-> 45],
   materialUIMapping |-> None,
   figmaNodeId |-> None]

VisionResponses ==
  {[kind |-> "null"]}
  \cup {[kind |-> "object", components |-> cs, confidence |-> c] :
          cs \in {None, Some(<<UnmappedVisionComponent, MappedVisionComponent>>)},
          c \in ResponseConfidences}

CallFailures == {"transport", "status", "parse"}

----------------------------------------------------------------------------
(* StyleMapperService *)

\* component.properties.styling as extractSpecificProperties builds it: a
\* background colour for a node with fills, nothing otherwise
stylingOf(component) ==
  IF component.fills THEN Some([background |-> "#1a1a1a"]) ELSE None

\* name.includes(k) on the lowercased name
nameHas(component, k) == lowerIncludes(component.name, k)

\* the names buildComponentProps and determineMuiComponent treat as a
\* payment method
isPaymentMethodName(component) ==
  \/ nameHas(component, "method") \/ nameHas(component, "visa")
  \/ nameHas(component, "mastercard") \/ nameHas(component, "paypal")
  \/ nameHas(component, "cash")

\* determineMuiComponent
determineMuiComponent(component) ==
  IF \/ nameHas(component, "button") \/ nameHas(component, "btn")
     \/ (nameHas(component, "pay") /\ nameHas(component, "confirm"))
     \/ nameHas(component, "add new")
  THEN "Button"
  ELSE IF nameHas(component, "card") \/ isPaymentMethodName(component)
  THEN "Card"
  ELSE IF \/ component.type = "TEXT" \/ nameHas(component, "text")
          \/ nameHas(component, "title") \/ nameHas(component, "total")
          \/ nameHas(component, "payment")
  THEN "Typography"
  ELSE "Box"

\* buildSxStyling: the dimensions, and the background when styling has one
buildSxStyling(styling, bounds) ==
  [width |-> bounds.width, height |-> bounds.height,
   minWidth |-> bounds.width, minHeight |-> bounds.height,
   backgroundColor |-> IF styling = None THEN None
                       ELSE Some(styling[1].background)]

LargeButtonHeight == 60

\* buildComponentProps: the three blocks assign in turn, a later block
\* overwriting the variant of an earlier one
buildComponentProps(component) ==
  LET isButton == nameHas(component, "button") \/ nameHas(component, "btn")
      isPay == nameHas(component, "pay") \/ nameHas(component, "confirm")
      isText == component.type = "TEXT"
      buttonVariant ==
        IF isPay \/ nameHas(component, "primary") THEN "contained" ELSE "outlined"
      textVariant ==
        IF nameHas(component, "total") \/ nameHas(component, "$96") THEN "h4"
        ELSE IF nameHas(component, "payment") /\ ~nameHas(component, "method")
        THEN "h5"
        ELSE "body1"
  IN  [variant |-> IF isText THEN Some(textVariant)
                   ELSE IF isPaymentMethodName(component) THEN Some("outlined")
                   ELSE IF isButton THEN Some(buttonVariant)
                   ELSE None,
       size |-> IF ~isButton THEN None
                ELSE IF component.bounds.height > LargeButtonHeight
                THEN Some("large") ELSE Some("medium"),
       color |-> IF isButton /\ isPay THEN Some("primary") ELSE None,
       fullWidth |-> isButton /\ isPay,
       fontWeight |-> IF isText /\ textVariant = "h4" THEN Some("bold") ELSE None,
       pointer |-> isPaymentMethodName(component),
       selected |-> nameHas(component, "mastercard")]

\* extractTextContent
extractTextContent(component) ==
  IF component.type = "TEXT" /\ component.characters # None
  THEN component.characters
  ELSE IF nameHas(component, "pay") /\ nameHas(component, "confirm")
  THEN Some("PAY & CONFIRM")
  ELSE IF nameHas(component, "add new") THEN Some("+ ADD NEW")
  ELSE IF nameHas(component, "total") THEN Some("TOTAL: $96")
  ELSE IF nameHas(component, "select payment method")
  THEN Some("Select Payment Method")
  ELSE None

\* mapSingleComponent numbering its output by the calls the service has
\* served: a field of the service read into the id
mapSingleComponent_counted(component, assets, designSystem) ==
  [id |-> component.id + Len(mapLog),
   name |-> component.name,
   muiComponent |-> determineMuiComponent(component),
   props |-> buildComponentProps(component),
   sx |-> buildSxStyling(stylingOf(component), component.bounds),
   content |-> extractTextContent(component),
   imageUrl |-> IF component.id \in assets
                THEN Some([asset |-> component.id]) ELSE None]

\* mapSingleComponent; assetUrls is the set of node ids that have a URL
mapSingleComponent(component, assets, designSystem) ==
  [id |-> component.id,
   name |-> component.name,
   muiComponent |-> determineMuiComponent(component),
   props |-> buildComponentProps(component),
   sx |-> buildSxStyling(stylingOf(component), component.bounds),
   content |-> extractTextContent(component),
   imageUrl |-> IF component.id \in assets
                THEN Some([asset |-> component.id]) ELSE None]

\* the key buildDesignSystem files the index-th color under (index from 0)
colorKey(color, index) ==
  IF lowerIncludes(color, "ff7f00") \/ lowerIncludes(color, "ff8c00")
  THEN {"primary", "accent"}
  ELSE IF lowerIncludes(color, "ffffff") THEN {"white"}
  ELSE IF lowerIncludes(color, "000000") THEN {"black"}
  ELSE {<<"color0", "color1", "color2", "color3">>[index + 1]}

RECURSIVE buildColors(_, _, _)
\* designTokens.colors.forEach from the i-th color on: a later color replaces
\* an earlier one filed under the same key
buildColors(colors, i, acc) ==
  IF i > Len(colors) THEN acc
  ELSE LET keys == colorKey(colors[i], i - 1)
       IN  buildColors(colors, i + 1,
             [k \in DOMAIN acc \cup keys |->
                IF k \in keys THEN colors[i] ELSE acc[k]])

\* buildDesignSystem; a typography token 'family-weight-size' is given by its
\* three parts
buildDesignSystem(tokens) ==
  [colors |-> buildColors(tokens.colors, 1, [k \in {} |-> ""]),
   typography |-> [t \in Range(tokens.typography) |->
                     [fontFamily |-> t[1], fontWeight |-> t[2], fontSize |-> t[3]]],
   spacing |-> tokens.spacing]

\* mapComponentsToMui that maps only the components it has a specific MUI
\* component for
mapComponentsToMui_skipsBoxes(comps, tokens, assets) ==
  LET designSystem == buildDesignSystem(tokens)
      all == [i \in 1..Len(comps) |->
                mapSingleComponent(comps[i], assets, designSystem)]
  IN  [components |-> SelectSeq(all, LAMBDA m : m.muiComponent # "Box"),
       designSystem |-> designSystem]

\* mapComponentsToMui: components.map(mapSingleComponent).filter(Boolean);
\* mapSingleComponent always returns an object, so the filter keeps all
mapComponentsToMui(comps, tokens, assets) ==
  LET designSystem == buildDesignSystem(tokens)
  IN  [components |-> [i \in 1..Len(comps) |->
                         mapSingleComponent(comps[i], assets, designSystem)],
       designSystem |-> designSystem]

----------------------------------------------------------------------------
(* FigmaToCodeProcessor.startFigmaProcessing *)

\* the catch block without its updateScreen call: the screen record keeps
\* the status it had
RunCatch_noStatusWrite(cause) ==
  /\ pc' = "failed"
  /\ error' = cause
  /\ isProcessing' = FALSE
  /\ UNCHANGED screenStatus

\* the catch block of startFigmaProcessing; cause names the step that threw
RunCatch(cause) ==
  /\ pc' = "failed"
  /\ error' = cause
  /\ isProcessing' = FALSE
  /\ screenStatus' = "error"

\* the design tokens of a file without fills, text or auto layout
NoTokens == [colors |-> <<>>, typography |-> <<>>, spacing |-> <<>>]

\* extractDesignTokens: the colors of the fills of the file's nodes
tokensOfFile(list) ==
  [colors |-> IF \E i \in 1..Len(list) : list[i].fills
              THEN <<"#1a1a1a">> ELSE <<>>,
   typography |-> <<>>,
   spacing |-> <<>>]

\* downloadImageAssets: a URL for every descriptor with fills, or none at all
\* when the image request fails
assetsOfFile(list) ==
  {{}, {list[i].id : i \in {j \in 1..Len(list) : list[j].fills}}}

\* steps 1 and 2: the file key is extracted and the file is fetched and
\* analysed into descriptors, design tokens and asset URLs
FetchFigmaFrom(lists) ==
  /\ pc = "start"
  /\ \E list \in lists :
        /\ components' = list
        /\ designTokens' = tokensOfFile(list)
        /\ assetUrls' \in assetsOfFile(list)
        /\ pc' = "styleMap"
        /\ activeStep' = 1
  /\ UNCHANGED <<groupCall, grouping, probeCall, visionCall, analysis,
                 isProcessing, error, screenStatus>>
  /\ UNCHANGED <<groupRequests, visionRequests, styleMapping, mapLog, runs,
                 figmaFile, autoMap, clusters, verticalSections, stageDebugger>>

FetchFigma == FetchFigmaFrom(ExtractedLists)

\* the same steps on the documents that start at the first archetype
FetchFigmaLive == FetchFigmaFrom(LiveLists)

\* the Figma URL is invalid or the Figma API fails
FetchFigmaFails ==
  /\ pc = "start"
  /\ RunCatch("figma")
  /\ UNCHANGED <<components, groupCall, grouping, probeCall, visionCall,
                 analysis, activeStep>>
  /\ UNCHANGED <<groupRequests, visionRequests, designTokens, assetUrls,
                 styleMapping, mapLog, runs,
                 figmaFile, autoMap, clusters, verticalSections, stageDebugger>>

\* one call of mapComponentsToMui, with its arguments
mapCall(comps, tokens, assets) ==
  [comps |-> comps, tokens |-> tokens, assets |-> assets,
   out |-> mapComponentsToMui(comps, tokens, assets)]

\* styleMapperService.mapComponentsToMui on the extracted descriptors, then
\* setStyleMapping and setActiveStep(2)
StyleMap ==
  /\ pc = "styleMap"
  /\ pc' = "group"
  /\ activeStep' = 2
  /\ LET call == mapCall(components, designTokens, assetUrls)
     IN  /\ styleMapping' = call.out
         /\ mapLog' = Append(mapLog, call)
  /\ UNCHANGED <<components, groupCall, grouping, probeCall, visionCall,
                 analysis, isProcessing, error, screenStatus>>
  /\ UNCHANGED <<groupRequests, visionRequests, designTokens, assetUrls, runs,
                 figmaFile, autoMap, clusters, verticalSections, stageDebugger>>

\* stage 3A: groupComponents issues its one fetch
GroupRequest ==
  /\ pc = "group"
  /\ pc' = "groupAwait"
  /\ groupCall' = "pending"
  /\ UNCHANGED <<components, grouping, probeCall, visionCall, analysis,
                 activeStep, isProcessing, error, screenStatus>>
  /\ UNCHANGED <<visionRequests, designTokens, assetUrls, styleMapping,
                 mapLog, runs,
                 figmaFile, autoMap, clusters, verticalSections, stageDebugger>>
  /\ groupRequests' = groupRequests + 1

\* the request ends with outcome call and groupComponents returns, or throws
\* into the catch of startFigmaProcessing
GroupReturn(call, result, rnd) ==
  /\ pc = "groupAwait"
  /\ groupCall' = IF call = "ok" THEN result.kind ELSE call
  /\ \E r \in {groupComponents(call, result, rnd, components)} :
        IF r.ok
        THEN /\ grouping' = r.val
             /\ pc' = "probe"
             /\ activeStep' = 3
             /\ UNCHANGED <<isProcessing, error, screenStatus>>
        ELSE /\ RunCatch("group")
             /\ UNCHANGED <<grouping, activeStep>>
  /\ components' = componentsAfterGroup(call, result, rnd, components)
  /\ UNCHANGED <<probeCall, visionCall, analysis>>
  /\ UNCHANGED <<groupRequests, visionRequests, designTokens, assetUrls,
                 styleMapping, mapLog, runs,
                 figmaFile, autoMap, clusters, verticalSections, stageDebugger>>

\* fetch rejects: network error
GroupTransportError == GroupReturn("transport", [kind |-> "null"], 1)

\* the response is not ok
GroupBadStatus == GroupReturn("status", [kind |-> "null"], 1)

\* the body or the message content is not JSON
GroupParseError == GroupReturn("parse", [kind |-> "null"], 1)

\* the message content parses as JSON
GroupResponseFrom(responses) ==
  \E result \in responses :
     \E rnd \in IF usesRandom(result) THEN RandomDraws ELSE {1} :
        GroupReturn("ok", result, rnd)

GroupResponse == GroupResponseFrom(GroupingResponses)

\* the same step on the responses of the runs whose termination is checked
GroupResponseLive == GroupResponseFrom(LiveResponses)

\* the object a fenced response wraps
FencedObject ==
  [kind |-> "object",
   groups |-> Some(<<[id |-> Some("g-pay"), name |-> Some("Payment Methods Section"),
                      type |-> Some("card"), bounds |-> None,
                      children |-> <<1>>, confidence |-> Some(9)]>>),
   confidence |-> Some(9)]

\* the message content is valid JSON inside a markdown code fence;
\* groupComponents hands the content to JSON.parse as it came
GroupFencedResponse ==
  /\ pc = "groupAwait"
  /\ \E opener \in FenceOpeners :
        LET p == jsonParse(fencedContent(opener), FencedObject)
            r == groupComponents(IF p.ok THEN "ok" ELSE "parse",
                                 FencedObject, 1, components)
        IN  /\ grouping' = r.val
            /\ components' = componentsAfterGroup(IF p.ok THEN "ok" ELSE "parse",
                                                  FencedObject, 1, components)
  /\ groupCall' = "fenced"
  /\ pc' = "probe"
  /\ activeStep' = 3
  /\ UNCHANGED <<probeCall, visionCall, analysis, isProcessing, error,
                 screenStatus>>
  /\ UNCHANGED <<groupRequests, visionRequests, designTokens, assetUrls,
                 styleMapping, mapLog, runs,
                 figmaFile, autoMap, clusters, verticalSections, stageDebugger>>

\* stage 3B starts with testGPTVisionAPI, which issues a request of its own
ProbeRequest ==
  /\ pc = "probe"
  /\ pc' = "probeAwait"
  /\ probeCall' = "pending"
  /\ UNCHANGED <<components, groupCall, grouping, visionCall, analysis,
                 activeStep, isProcessing, error, screenStatus>>
  /\ UNCHANGED <<groupRequests, designTokens, assetUrls, styleMapping,
                 mapLog, runs,
                 figmaFile, autoMap, clusters, verticalSections, stageDebugger>>
  /\ visionRequests' = visionRequests + 1

\* testGPTVisionAPI returns the response data
ProbeOk ==
  /\ pc = "probeAwait"
  /\ pc' = "validate"
  /\ probeCall' = "ok"
  /\ UNCHANGED <<components, groupCall, grouping, visionCall, analysis,
                 activeStep, isProcessing, error, screenStatus>>
  /\ UNCHANGED <<groupRequests, visionRequests, designTokens, assetUrls,
                 styleMapping, mapLog, runs,
                 figmaFile, autoMap, clusters, verticalSections, stageDebugger>>

\* testGPTVisionAPI rethrows; startFigmaProcessing throws
\* 'GPT Vision API is not working'
ProbeFails ==
  /\ pc = "probeAwait"
  /\ \E call \in CallFailures : probeCall' = call
  /\ RunCatch("probe")
  /\ UNCHANGED <<components, groupCall, grouping, visionCall, analysis,
                 activeStep>>
  /\ UNCHANGED <<groupRequests, visionRequests, designTokens, assetUrls,
                 styleMapping, mapLog, runs,
                 figmaFile, autoMap, clusters, verticalSections, stageDebugger>>

\* analyzeSemanticGroups issues its one fetch
VisionRequest ==
  /\ pc = "validate"
  /\ pc' = "validateAwait"
  /\ visionCall' = "pending"
  /\ UNCHANGED <<components, groupCall, grouping, probeCall, analysis,
                 activeStep, isProcessing, error, screenStatus>>
  /\ UNCHANGED <<groupRequests, designTokens, assetUrls, styleMapping,
                 mapLog, runs,
                 figmaFile, autoMap, clusters, verticalSections, stageDebugger>>
  /\ visionRequests' = visionRequests + 1

\* the request ends with outcome call and analyzeSemanticGroups returns, or
\* throws into the catch of startFigmaProcessing
VisionReturn(call, response) ==
  /\ pc = "validateAwait"
  /\ visionCall' = IF call = "ok" THEN response.kind ELSE call
  /\ LET r == analyzeSemanticGroups(call, response, grouping, components)
     IN  IF r.ok
         THEN /\ analysis' = r.val
              /\ pc' = "generate"
              /\ activeStep' = 4
              /\ UNCHANGED <<isProcessing, error, screenStatus>>
         ELSE /\ RunCatch("validate")
              /\ UNCHANGED <<analysis, activeStep>>
  /\ UNCHANGED <<components, groupCall, grouping, probeCall>>
  /\ UNCHANGED <<groupRequests, visionRequests, designTokens, assetUrls,
                 styleMapping, mapLog, runs,
                 figmaFile, autoMap, clusters, verticalSections, stageDebugger>>

\* the vision request fails: network error, non-ok status, unparsable content
VisionFails ==
  \E call \in CallFailures : VisionReturn(call, [kind |-> "null"])

\* the message content parses as JSON
VisionResponse ==
  \E response \in VisionResponses : VisionReturn("ok", response)

\* the object a fenced vision response wraps
FencedAnalysis ==
  [kind |-> "object",
   components |-> Some(<<UnmappedVisionComponent, MappedVisionComponent>>),
   confidence |-> Some(4)]

\* the message content is valid JSON inside a markdown code fence;
\* analyzeSemanticGroups strips a leading json marker and a trailing marker first
VisionFencedResponse ==
  \E opener \in FenceOpeners :
     LET p == jsonParse(stripFence(fencedContent(opener)), FencedAnalysis)
     IN  VisionReturn(IF p.ok THEN "ok" ELSE "parse", FencedAnalysis)

\* steps 4 and 5: generateEnhancedReactCode, then setActiveStep(6) and
\* updateScreen with status 'ready'
GenerateCode ==
  /\ pc = "generate"
  /\ pc' = "saveAwait"
  /\ activeStep' = 6
  /\ UNCHANGED <<components, groupCall, grouping, probeCall, visionCall,
                 analysis, isProcessing, error, screenStatus>>
  /\ UNCHANGED <<groupRequests, visionRequests, designTokens, assetUrls,
                 styleMapping, mapLog, runs,
                 figmaFile, autoMap, clusters, verticalSections, stageDebugger>>

\* updateScreen succeeds: the screen is 'ready', and onSuccess calls
\* createSession
SaveOk ==
  /\ pc = "saveAwait"
  /\ pc' = "sessionAwait"
  /\ screenStatus' = "ready"
  /\ UNCHANGED <<components, groupCall, grouping, probeCall, visionCall,
                 analysis, activeStep, error, isProcessing>>
  /\ UNCHANGED <<groupRequests, visionRequests, designTokens, assetUrls,
                 styleMapping, mapLog, runs,
                 figmaFile, autoMap, clusters, verticalSections, stageDebugger>>

\* createSession settles: onSuccess and onError both call
\* setIsProcessing(false) and onComplete()
SessionSettled ==
  /\ pc = "sessionAwait"
  /\ pc' = "done"
  /\ isProcessing' = FALSE
  /\ UNCHANGED <<components, groupCall, grouping, probeCall, visionCall,
                 analysis, activeStep, error, screenStatus>>
  /\ UNCHANGED <<groupRequests, visionRequests, designTokens, assetUrls,
                 styleMapping, mapLog, runs,
                 figmaFile, autoMap, clusters, verticalSections, stageDebugger>>

\* updateScreen fails: the error is shown and the screen is marked 'error'
SaveFails ==
  /\ pc = "saveAwait"
  /\ pc' = "failed"
  /\ error' = "save"
  /\ isProcessing' = FALSE
  /\ screenStatus' = "error"
  /\ UNCHANGED <<components, groupCall, grouping, probeCall, visionCall,
                 analysis, activeStep>>
  /\ UNCHANGED <<groupRequests, visionRequests, designTokens, assetUrls,
                 styleMapping, mapLog, runs,
                 figmaFile, autoMap, clusters, verticalSections, stageDebugger>>

Init ==
  /\ components = <<>>
  /\ pc = "start"
  /\ groupCall = "none"
  /\ grouping = NoResult
  /\ probeCall = "none"
  /\ visionCall = "none"
  /\ analysis = NoResult
  /\ activeStep = 0
  /\ isProcessing = TRUE
  /\ error = ""
  /\ screenStatus = "processing"
  /\ groupRequests = 0
  /\ visionRequests = 0
  /\ designTokens = NoTokens
  /\ assetUrls = {}
  /\ styleMapping = NoResult
  /\ mapLog = <<>>
  /\ runs = <<>>
  /\ OtherComponentsIdle

Next ==
  \/ FetchFigma
  \/ FetchFigmaFails
  \/ StyleMap
  \/ GroupRequest
  \/ GroupTransportError
  \/ GroupBadStatus
  \/ GroupParseError
  \/ GroupResponse
  \/ GroupFencedResponse
  \/ ProbeRequest
  \/ ProbeOk
  \/ ProbeFails
  \/ VisionRequest
  \/ VisionFails
  \/ VisionResponse
  \/ VisionFencedResponse
  \/ GenerateCode
  \/ SaveOk
  \/ SessionSettled
  \/ SaveFails

Spec == Init /\ [][Next]_vars

\* the run with its awaited promises settling: every fetch, delay and
\* mutation is answered, so a step that can be taken is taken
NextLive ==
  \/ FetchFigmaLive
  \/ FetchFigmaFails
  \/ StyleMap
  \/ GroupRequest
  \/ GroupTransportError
  \/ GroupBadStatus
  \/ GroupParseError
  \/ GroupResponseLive
  \/ GroupFencedResponse
  \/ ProbeRequest
  \/ ProbeOk
  \/ ProbeFails
  \/ VisionRequest
  \/ VisionFails
  \/ VisionResponse
  \/ VisionFencedResponse
  \/ GenerateCode
  \/ SaveOk
  \/ SessionSettled
  \/ SaveFails

SpecLive == Init /\ [][NextLive]_vars /\ WF_vars(NextLive)

----------------------------------------------------------------------------
(* group() on its own, on descriptor lists of any length up to MaxNodes *)

InitGroup ==
  /\ components \in GroupInputLists
  /\ pc = "group"
  /\ groupCall = "none"
  /\ grouping = NoResult
  /\ probeCall = "none"
  /\ visionCall = "none"
  /\ analysis = NoResult
  /\ activeStep = 2
  /\ isProcessing = TRUE
  /\ error = ""
  /\ screenStatus = "processing"
  /\ groupRequests = 0
  /\ visionRequests = 0
  /\ designTokens = NoTokens
  /\ assetUrls = {}
  /\ styleMapping = NoResult
  /\ mapLog = <<>>
  /\ runs = <<>>
  /\ OtherComponentsIdle

NextGroup ==
  \/ GroupRequest
  \/ GroupTransportError
  \/ GroupBadStatus
  \/ GroupParseError
  \/ GroupResponse
  \/ GroupFencedResponse

SpecGroup == InitGroup /\ [][NextGroup]_vars

----------------------------------------------------------------------------
(* The component around startFigmaProcessing: every invocation is a run of  *)
(* its own over the same React state. runs[r] is the position of the r-th   *)
(* invocation, with the positions of pc and, for a request the server never *)
(* answers, "groupHung", "probeHung" and "validateHung".                    *)

\* most invocations of startFigmaProcessing for one screen
MaxRuns == 2

RunFinal == {"done", "failed"}

\* the runs that have started and not finished
InFlight == {r \in 1..Len(runs) : runs[r] \notin RunFinal}

\* what a step of the pipeline leaves alone in this view
RunDataUnchanged ==
  UNCHANGED <<components, pc, groupCall, grouping, probeCall, visionCall,
              analysis, designTokens, assetUrls, styleMapping, mapLog,
              figmaFile, autoMap, clusters, verticalSections, stageDebugger>>

\* startFigmaProcessing is entered: setIsProcessing(true); setError('')
StartRun ==
  /\ Len(runs) < MaxRuns
  /\ runs' = Append(runs, "start")
  /\ isProcessing' = TRUE
  /\ error' = ""
  /\ RunDataUnchanged
  /\ UNCHANGED <<activeStep, screenStatus, groupRequests, visionRequests>>

\* useEffect on mount: the screen is 'processing' and has a figma_url
MountEffect ==
  /\ runs = <<>>
  /\ screenStatus = "processing"
  /\ StartRun

\* useEffect fires again: the parent passes a new screen object (its list of
\* screens was refetched) whose status is still 'processing'
ScreenPropChanges ==
  /\ runs # <<>>
  /\ screenStatus = "processing"
  /\ StartRun

\* the Retry button, rendered while error is set
Retry ==
  /\ error # ""
  /\ StartRun

\* run r moves from position from to position to
RunMoves(r, from, to) ==
  /\ r \in 1..Len(runs)
  /\ runs[r] = from
  /\ runs' = [runs EXCEPT ![r] = to]
  /\ RunDataUnchanged

\* the catch block of startFigmaProcessing, entered by run r
RunThrows(r, from, cause) ==
  /\ RunMoves(r, from, "failed")
  /\ error' = cause
  /\ isProcessing' = FALSE
  /\ screenStatus' = "error"
  /\ UNCHANGED <<activeStep, groupRequests, visionRequests>>

RunFetchFigma ==
  \E r \in 1..MaxRuns :
     /\ RunMoves(r, "start", "styleMap")
     /\ activeStep' = 1
     /\ UNCHANGED <<isProcessing, error, screenStatus, groupRequests,
                    visionRequests>>

RunFetchFigmaFails == \E r \in 1..MaxRuns : RunThrows(r, "start", "figma")

RunStyleMap ==
  \E r \in 1..MaxRuns :
     /\ RunMoves(r, "styleMap", "group")
     /\ activeStep' = 2
     /\ UNCHANGED <<isProcessing, error, screenStatus, groupRequests,
                    visionRequests>>

\* groupComponents issues its fetch
RunGroupRequest ==
  \E r \in 1..MaxRuns :
     /\ RunMoves(r, "group", "groupAwait")
     /\ groupRequests' = groupRequests + 1
     /\ UNCHANGED <<activeStep, isProcessing, error, screenStatus,
                    visionRequests>>

\* the fetch settles, with a response or an error: groupComponents returns
RunGroupReturns ==
  \E r \in 1..MaxRuns :
     /\ RunMoves(r, "groupAwait", "probe")
     /\ activeStep' = 3
     /\ UNCHANGED <<isProcessing, error, screenStatus, groupRequests,
                    visionRequests>>

\* the server never answers: fetch is given no signal and no timer is armed,
\* so the promise never settles
RunGroupHangs ==
  \E r \in 1..MaxRuns :
     /\ RunMoves(r, "groupAwait", "groupHung")
     /\ UNCHANGED <<activeStep, isProcessing, error, screenStatus,
                    groupRequests, visionRequests>>

\* testGPTVisionAPI issues its fetch
RunProbeRequest ==
  \E r \in 1..MaxRuns :
     /\ RunMoves(r, "probe", "probeAwait")
     /\ visionRequests' = visionRequests + 1
     /\ UNCHANGED <<activeStep, isProcessing, error, screenStatus,
                    groupRequests>>

RunProbeOk ==
  \E r \in 1..MaxRuns :
     /\ RunMoves(r, "probeAwait", "validate")
     /\ UNCHANGED <<activeStep, isProcessing, error, screenStatus,
                    groupRequests, visionRequests>>

RunProbeFails == \E r \in 1..MaxRuns : RunThrows(r, "probeAwait", "probe")

RunProbeHangs ==
  \E r \in 1..MaxRuns :
     /\ RunMoves(r, "probeAwait", "probeHung")
     /\ UNCHANGED <<activeStep, isProcessing, error, screenStatus,
                    groupRequests, visionRequests>>

\* analyzeSemanticGroups issues its fetch
RunVisionRequest ==
  \E r \in 1..MaxRuns :
     /\ RunMoves(r, "validate", "validateAwait")
     /\ visionRequests' = visionRequests + 1
     /\ UNCHANGED <<activeStep, isProcessing, error, screenStatus,
                    groupRequests>>

\* the fetch settles and analyzeSemanticGroups returns an analysis
RunVisionReturns ==
  \E r \in 1..MaxRuns :
     /\ RunMoves(r, "validateAwait", "generate")
     /\ activeStep' = 4
     /\ UNCHANGED <<isProcessing, error, screenStatus, groupRequests,
                    visionRequests>>

\* the fetch fails and createFallbackAnalysis throws
RunVisionThrows == \E r \in 1..MaxRuns : RunThrows(r, "validateAwait", "validate")

RunVisionHangs ==
  \E r \in 1..MaxRuns :
     /\ RunMoves(r, "validateAwait", "validateHung")
     /\ UNCHANGED <<activeStep, isProcessing, error, screenStatus,
                    groupRequests, visionRequests>>

RunGenerateCode ==
  \E r \in 1..MaxRuns :
     /\ RunMoves(r, "generate", "saveAwait")
     /\ activeStep' = 6
     /\ UNCHANGED <<isProcessing, error, screenStatus, groupRequests,
                    visionRequests>>

RunSaveOk ==
  \E r \in 1..MaxRuns :
     /\ RunMoves(r, "saveAwait", "done")
     /\ screenStatus' = "ready"
     /\ isProcessing' = FALSE
     /\ UNCHANGED <<activeStep, error, groupRequests, visionRequests>>

RunSaveFails == \E r \in 1..MaxRuns : RunThrows(r, "saveAwait", "save")

InitRuns ==
  /\ components = <<>>
  /\ pc = "start"
  /\ groupCall = "none"
  /\ grouping = NoResult
  /\ probeCall = "none"
  /\ visionCall = "none"
  /\ analysis = NoResult
  /\ activeStep = 0
  /\ isProcessing = TRUE
  /\ error = ""
  /\ screenStatus = "processing"
  /\ groupRequests = 0
  /\ visionRequests = 0
  /\ designTokens = NoTokens
  /\ assetUrls = {}
  /\ styleMapping = NoResult
  /\ mapLog = <<>>
  /\ runs = <<>>
  /\ OtherComponentsIdle

\* the steps of the runs
RunStep ==
  \/ RunFetchFigma
  \/ RunFetchFigmaFails
  \/ RunStyleMap
  \/ RunGroupRequest
  \/ RunGroupReturns
  \/ RunGroupHangs
  \/ RunProbeRequest
  \/ RunProbeOk
  \/ RunProbeFails
  \/ RunProbeHangs
  \/ RunVisionRequest
  \/ RunVisionReturns
  \/ RunVisionThrows
  \/ RunVisionHangs
  \/ RunGenerateCode
  \/ RunSaveOk
  \/ RunSaveFails

NextRuns ==
  \/ MountEffect
  \/ ScreenPropChanges
  \/ Retry
  \/ RunStep

SpecRuns == InitRuns /\ [][NextRuns]_vars

\* every continuation of a run is scheduled once its promise has settled
SpecRunsLive == SpecRuns /\ WF_vars(RunStep)

----------------------------------------------------------------------------
(* mapComponentsToMui on its own: any component list, token set and asset   *)
(* map, called repeatedly and between calls made with other arguments       *)

\* longest component list given to the Style Mapper on its own
MaxMapNodes == 3
\* most calls of mapComponentsToMui on one service object
MaxMapCalls == 3

MapInputLists == DescriptorLists(MaxMapNodes, 0..(Len(Archetypes) - 1), BOOLEAN)

\* design tokens: none; a brand color, white and two typography tokens; two
\* colors filed by index and a later black
MapTokenSets == {
  NoTokens,
  [colors |-> <<"#ff7f00", "#ffffff">>,
   typography |-> << <<"Roboto", "700", "24">>, <<"Roboto", "400", "16">> >>,
   spacing |-> <<8, 16>>],
  [colors |-> <<"#1a1a1a", "#1a1a1a", "000000">>,
   typography |-> <<>>,
   spacing |-> <<4>>] }

\* asset maps: no URL, a URL for the first id, a URL for every id and for an
\* id no component has
MapAssetMaps == {{}, {1}, (1..MaxMapNodes) \cup {UnknownId}}

\* the arguments of the calls made in between
OtherMapArguments == {
  [comps |-> DescriptorList(2, 4, FALSE), tokens |-> NoTokens, assets |-> {2}],
  [comps |-> <<>>, tokens |-> NoTokens, assets |-> {}] }

InitMap ==
  /\ components \in MapInputLists
  /\ designTokens \in MapTokenSets
  /\ assetUrls \in MapAssetMaps
  /\ pc = "styleMap"
  /\ groupCall = "none"
  /\ grouping = NoResult
  /\ probeCall = "none"
  /\ visionCall = "none"
  /\ analysis = NoResult
  /\ activeStep = 1
  /\ isProcessing = TRUE
  /\ error = ""
  /\ screenStatus = "processing"
  /\ groupRequests = 0
  /\ visionRequests = 0
  /\ styleMapping = NoResult
  /\ mapLog = <<>>
  /\ runs = <<>>
  /\ OtherComponentsIdle

MapFrame ==
  UNCHANGED <<components, pc, groupCall, grouping, probeCall, visionCall,
              analysis, activeStep, isProcessing, error, screenStatus,
              groupRequests, visionRequests, designTokens, assetUrls, runs,
                 figmaFile, autoMap, clusters, verticalSections, stageDebugger>>

\* mapComponentsToMui is called with the components, tokens and asset URLs
MapCall ==
  /\ Len(mapLog) < MaxMapCalls
  /\ LET call == mapCall(components, designTokens, assetUrls)
     IN  /\ styleMapping' = call.out
         /\ mapLog' = Append(mapLog, call)
  /\ MapFrame

\* the same service is called with other arguments
MapOtherCall ==
  /\ Len(mapLog) < MaxMapCalls
  /\ \E a \in OtherMapArguments :
        mapLog' = Append(mapLog, mapCall(a.comps, a.tokens, a.assets))
  /\ UNCHANGED styleMapping
  /\ MapFrame

NextMap ==
  \/ MapCall
  \/ MapOtherCall

SpecMap == InitMap /\ [][NextMap]_vars

----------------------------------------------------------------------------
(* The private helpers of SemanticGroupingService, each called once on a   *)
(* descriptor list: autoMapComponentsToGroups, findSpatialClusters,        *)
(* identifyVerticalSections.                                               *)

\* longest descriptor list a helper is called with
MaxLayoutNodes == 4
\* most groups handed to autoMapComponentsToGroups
MaxRepairGroups == 2

\* a descriptor of the given kind, top-left corner and height
LayoutNode(id, type, characters, x, y, height) ==
  [id |-> id, name |-> "Misc", type |-> type, characters |-> characters,
   bounds |-> [x |-> x, y |-> y, width |-> 50, height |-> height],
   fills |-> FALSE]

\* the descriptors the lists are drawn from: three scattered nodes, a
\* staircase whose steps are near their neighbours only, a tall frame and
\* the total label
LayoutNodes == <<
  LayoutNode(1, "RECTANGLE", None, 10, 10, 15),
  LayoutNode(2, "RECTANGLE", None, 20, 15, 15),
  LayoutNode(3, "RECTANGLE", None, 500, 500, 15),
  LayoutNode(4, "RECTANGLE", None, 0, 0, 15),
  LayoutNode(5, "RECTANGLE", None, 70, 20, 15),
  LayoutNode(6, "RECTANGLE", None, 140, 40, 15),
  LayoutNode(7, "FRAME", None, 0, 300, 69),
  LayoutNode(8, "TEXT", Some("$96"), 300, 420, 30) >>

\* the lists of at most maxN distinct descriptors, in any order
LayoutLists(maxN) ==
  LET picks == UNION {[1..n -> 1..Len(LayoutNodes)] : n \in 0..maxN}
  IN  {[i \in 1..Len(p) |-> LayoutNodes[p[i]]] :
         p \in {q \in picks : \A i, j \in 1..Len(q) : i # j => q[i] # q[j]}}

\* the groups validateAndEnhanceResult can hand to the repair for a list:
\* an empty 'Total Display', empty unnamed groups near the first nodes and
\* near the total label, and a group that has its first descriptor already
RepairGroups(allComponents) ==
  LET group(id, name, x, y, children) ==
        [id |-> [src |-> "model", v |-> id], name |-> name, type |-> "other",
         bounds |-> [x |-> x, y |-> y, width |-> 100, height |-> 50],
         children |-> children, confidence |-> DefaultConfidence]
  IN  { group("g-total", "Total Display", 0, 0, <<>>),
        group("g-a", "Unnamed Group", 10, 10, <<>>),
        group("g-b", "Unnamed Group", 300, 400, <<>>) }
      \cup (IF allComponents = <<>> THEN {}
            ELSE {group("g-promo", "Promo", 0, 0, <<1>>)})

ClusterThreshold == 100

\* findSpatialClusters: every descriptor not yet processed seeds a cluster
\* and takes the unprocessed descriptors near itself; clusters of one are
\* dropped. A cluster is the sequence of its descriptors' positions.
findSpatialClusters(comps) ==
  LET near(a, b) ==
        (a.x - b.x) * (a.x - b.x) + (a.y - b.y) * (a.y - b.y)
          < ClusterThreshold * ClusterThreshold
      RECURSIVE inner(_, _, _, _)
      inner(i, j, processed, cluster) ==
        IF j > Len(comps) THEN [processed |-> processed, cluster |-> cluster]
        ELSE IF comps[j].id \in processed
        THEN inner(i, j + 1, processed, cluster)
        ELSE IF near(comps[i].bounds, comps[j].bounds)
        THEN inner(i, j + 1, processed \cup {comps[j].id}, Append(cluster, j))
        ELSE inner(i, j + 1, processed, cluster)
      RECURSIVE outer(_, _, _)
      outer(i, processed, acc) ==
        IF i > Len(comps) THEN acc
        ELSE IF comps[i].id \in processed THEN outer(i + 1, processed, acc)
        ELSE LET r == inner(i, 1, processed \cup {comps[i].id}, <<i>>)
             IN  outer(i + 1, r.processed,
                       IF Len(r.cluster) > 1 THEN Append(acc, r.cluster)
                       ELSE acc)
  IN  outer(1, {}, <<>>)

SectionGap == 50

\* [...components].sort((a, b) => a.bounds.y - b.bounds.y): the positions in
\* ascending order of top edge, equal top edges in list order
sortedByY(comps) ==
  LET before(q, p) ==
        \/ comps[q].bounds.y < comps[p].bounds.y
        \/ (comps[q].bounds.y = comps[p].bounds.y /\ q < p)
      rank(p) == Cardinality({q \in 1..Len(comps) : before(q, p)}) + 1
  IN  [r \in 1..Len(comps) |-> CHOOSE p \in 1..Len(comps) : rank(p) = r]

\* the for loop of identifyVerticalSections, closing the current section when
\* the next top edge lies more than gap below the bottom edge
sectionsBy(comps, gap) ==
  LET sorted == sortedByY(comps)
      n == Len(comps)
      bottom(p) == comps[p].bounds.y + comps[p].bounds.height
      keyElement(p) == IF comps[p].characters # None
                       THEN comps[p].characters[1] ELSE comps[p].name
      section(members) ==
        [startY |-> comps[members[1]].bounds.y,
         endY |-> bottom(members[Len(members)]),
         components |-> members,
         types |-> [k \in 1..Len(members) |-> comps[members[k]].type],
         keyElements |-> [k \in 1..Len(members) |-> keyElement(members[k])]]
      RECURSIVE loop(_, _, _)
      loop(i, current, sections) ==
        IF i > n THEN sections
        ELSE IF i < n /\ comps[sorted[i + 1]].bounds.y - bottom(sorted[i]) > gap
        THEN loop(i + 1, <<>>,
                  Append(sections, section(Append(current, sorted[i]))))
        ELSE IF i = n
        THEN Append(sections, section(Append(current, sorted[i])))
        ELSE loop(i + 1, Append(current, sorted[i]), sections)
  IN  loop(1, <<>>, <<>>)

\* identifyVerticalSections closing a section at a gap of 50px already:
\* nextComponent.bounds.y - (...) >= 50
identifyVerticalSections_closesAtGap(comps) ==
  sectionsBy(comps, SectionGap - 1)

\* identifyVerticalSections: a section is closed when the next top edge lies
\* more than 50px below the bottom edge
identifyVerticalSections(comps) ==
  sectionsBy(comps, SectionGap)

\* what a call of one helper leaves alone
HelperFrame ==
  UNCHANGED <<components, groupCall, grouping, probeCall, visionCall,
              analysis, activeStep, isProcessing, error, screenStatus,
              groupRequests, visionRequests, designTokens, assetUrls,
              styleMapping, mapLog, runs, figmaFile, stageDebugger>>

\* autoMapComponentsToGroups(groups, components); groups is changed in place,
\* autoMap keeps what it was before and after
AutoMap ==
  /\ pc = "call"
  /\ pc' = "returned"
  /\ \E groups \in UNION {[1..k -> RepairGroups(components)] :
                            k \in 0..MaxRepairGroups} :
        autoMap' = [before |-> groups,
                    after |-> autoMapComponentsToGroups(groups, components)]
  /\ UNCHANGED <<clusters, verticalSections>>
  /\ HelperFrame

\* findSpatialClusters(components)
FindClusters ==
  /\ pc = "call"
  /\ pc' = "returned"
  /\ clusters' = Ok(findSpatialClusters(components))
  /\ UNCHANGED <<autoMap, verticalSections>>
  /\ HelperFrame

\* identifyVerticalSections(components)
IdentifySections ==
  /\ pc = "call"
  /\ pc' = "returned"
  /\ verticalSections' = Ok(identifyVerticalSections(components))
  /\ UNCHANGED <<autoMap, clusters>>
  /\ HelperFrame

InitHelpers ==
  /\ components \in LayoutLists(MaxLayoutNodes)
  /\ pc = "call"
  /\ groupCall = "none"
  /\ grouping = NoResult
  /\ probeCall = "none"
  /\ visionCall = "none"
  /\ analysis = NoResult
  /\ activeStep = 0
  /\ isProcessing = FALSE
  /\ error = ""
  /\ screenStatus = "processing"
  /\ groupRequests = 0
  /\ visionRequests = 0
  /\ designTokens = NoTokens
  /\ assetUrls = {}
  /\ styleMapping = NoResult
  /\ mapLog = <<>>
  /\ runs = <<>>
  /\ OtherComponentsIdle

NextHelpers ==
  \/ AutoMap
  \/ FindClusters
  \/ IdentifySections

SpecHelpers == InitHelpers /\ [][NextHelpers]_vars

----------------------------------------------------------------------------
(* FigmaService.analyzeFileStructure on a file. The nodes of a file are     *)
(* numbered 1..n, node 1 is the document, parent[i] < i is the parent of    *)
(* node i, and the children of a node are in ascending order of number.     *)

\* most nodes of a file
MaxTreeNodes == 4

TransparentTypes == {"DOCUMENT", "CANVAS", "SLICE"}

\* what a node below the document can be: its type and whether it carries
\* absoluteBoundingBox
NodeKinds ==
  { [type |-> "CANVAS", box |-> FALSE], [type |-> "SLICE", box |-> TRUE],
    [type |-> "FRAME", box |-> TRUE], [type |-> "FRAME", box |-> FALSE],
    [type |-> "TEXT", box |-> TRUE] }

\* the files of at most maxN nodes
FigmaFiles(maxN) ==
  UNION { { [n |-> n,
             parent |-> parent,
             node |-> [i \in 1..n |->
                         IF i = 1 THEN [type |-> "DOCUMENT", box |-> FALSE]
                         ELSE kinds[i]]] :
              parent \in {f \in [2..n -> 1..n] : \A i \in 2..n : f[i] < i},
              kinds \in [2..n -> NodeKinds] } : n \in 1..maxN }

\* node.children, in order
childrenOf(file, i) ==
  SelectSeq([j \in 1..file.n |-> j],
            LAMBDA j : j > 1 /\ file.parent[j] = i)

\* the ComponentAnalysis built from node i
componentOf(file, i) ==
  [id |-> i, name |-> "Misc", type |-> file.node[i].type,
   bounds |-> [x |-> 10 * i, y |-> 10 * i, width |-> 50, height |-> 15],
   characters |-> None, fills |-> FALSE]

RECURSIVE traverseNode_stopsAtMissingBox(_, _)
\* traverseNode returning at a node without absoluteBoundingBox before its
\* children are visited
traverseNode_stopsAtMissingBox(file, i) ==
  LET RECURSIVE visit(_)
      visit(kids) ==
        IF kids = <<>> THEN <<>>
        ELSE traverseNode_stopsAtMissingBox(file, Head(kids))
               \o visit(Tail(kids))
  IN  IF file.node[i].type \in TransparentTypes
      THEN visit(childrenOf(file, i))
      ELSE IF file.node[i].box
      THEN <<componentOf(file, i)>> \o visit(childrenOf(file, i))
      ELSE <<>>

RECURSIVE traverseNode(_, _)
\* traverseNode(node): what the call appends to components
traverseNode(file, i) ==
  LET RECURSIVE visit(_)
      visit(kids) ==
        IF kids = <<>> THEN <<>>
        ELSE traverseNode(file, Head(kids)) \o visit(Tail(kids))
  IN  IF file.node[i].type \in TransparentTypes
      THEN visit(childrenOf(file, i))
      ELSE (IF file.node[i].box THEN <<componentOf(file, i)>> ELSE <<>>)
             \o visit(childrenOf(file, i))

\* analyzeFileStructure(figmaFile)
analyzeFileStructure(file) == traverseNode(file, 1)

\* figmaService.analyzeFileStructure(figmaFile) is called and returns
AnalyzeFile ==
  /\ pc = "call"
  /\ pc' = "returned"
  /\ components' = analyzeFileStructure(figmaFile)
  /\ UNCHANGED <<groupCall, grouping, probeCall, visionCall, analysis,
                 activeStep, isProcessing, error, screenStatus, groupRequests,
                 visionRequests, designTokens, assetUrls, styleMapping, mapLog,
                 runs, figmaFile, autoMap, clusters, verticalSections,
                 stageDebugger>>

InitExtract ==
  /\ figmaFile \in FigmaFiles(MaxTreeNodes)
  /\ components = <<>>
  /\ pc = "call"
  /\ groupCall = "none"
  /\ grouping = NoResult
  /\ probeCall = "none"
  /\ visionCall = "none"
  /\ analysis = NoResult
  /\ activeStep = 0
  /\ isProcessing = FALSE
  /\ error = ""
  /\ screenStatus = "processing"
  /\ groupRequests = 0
  /\ visionRequests = 0
  /\ designTokens = NoTokens
  /\ assetUrls = {}
  /\ styleMapping = NoResult
  /\ mapLog = <<>>
  /\ runs = <<>>
  /\ autoMap = NoResult
  /\ clusters = NoResult
  /\ verticalSections = NoResult
  /\ stageDebugger = NoDebugger

NextExtract == AnalyzeFile

SpecExtract == InitExtract /\ [][NextExtract]_vars

----------------------------------------------------------------------------
(* The StageDebugger component: three buttons, each starting an async      *)
(* handler; every button is disabled while isLoading.                      *)

\* the Figma files the user can point the debugger at
MaxFiles == 2

\* what a handler leaves alone: everything but the component's own state
DebuggerFrame ==
  UNCHANGED <<components, pc, groupCall, grouping, probeCall, visionCall,
              analysis, activeStep, isProcessing, error, screenStatus,
              groupRequests, visionRequests, designTokens, assetUrls,
              styleMapping, mapLog, runs, figmaFile, autoMap, clusters,
              verticalSections>>

\* a handler starts: setIsLoading(true); setError('')
StartLoading(handler) ==
  stageDebugger' = [stageDebugger EXCEPT !.isLoading = TRUE, !.error = "",
                                         !.pending = handler]

\* the finally block of a handler, after an optional setError
StopLoading(state, message) ==
  stageDebugger' = [state EXCEPT !.isLoading = FALSE, !.pending = "none",
                                 !.error = message]

\* 'Fetch Figma Data' is clicked
ClickFetch ==
  /\ ~stageDebugger.isLoading
  /\ StartLoading("fetch")
  /\ DebuggerFrame

\* fetchFigmaData got the file, its image and its descriptors:
\* setFigmaData({figmaFile, imageUrl, figmaComponents})
FetchDone ==
  /\ stageDebugger.pending = "fetch"
  /\ \E file \in 1..MaxFiles :
        StopLoading([stageDebugger EXCEPT !.figmaData = Some(file)], "")
  /\ DebuggerFrame

\* fetchFigmaData threw: no frames, no image, or the Figma API failed
FetchFailed ==
  /\ stageDebugger.pending = "fetch"
  /\ StopLoading(stageDebugger, "Figma fetch failed")
  /\ DebuggerFrame

\* 'Run Stage 3A' is clicked: runStage3A returns early without Figma data
ClickStage3A ==
  /\ ~stageDebugger.isLoading
  /\ IF stageDebugger.figmaData = None
     THEN stageDebugger' =
            [stageDebugger EXCEPT !.error = "Please fetch Figma data first"]
     ELSE StartLoading("3A")
  /\ DebuggerFrame

\* groupComponents(figmaData.figmaFile, figmaData.figmaComponents) returned:
\* setSemanticGrouping(result)
Stage3ADone ==
  /\ stageDebugger.pending = "3A"
  /\ StopLoading(
       [stageDebugger EXCEPT
          !.semanticGrouping = Some([figmaData |-> stageDebugger.figmaData[1]])],
       "")
  /\ DebuggerFrame

\* 'Run Stage 3B' is clicked; the button is disabled without a grouping
ClickStage3B ==
  /\ ~stageDebugger.isLoading
  /\ stageDebugger.semanticGrouping # None
  /\ IF stageDebugger.figmaData = None \/ stageDebugger.semanticGrouping = None
     THEN stageDebugger' =
            [stageDebugger EXCEPT !.error = "Please run Stage 3A first"]
     ELSE StartLoading("3B")
  /\ DebuggerFrame

\* analyzeSemanticGroups(figmaData.figmaFile, figmaData.imageUrl,
\* semanticGrouping) returned: setGptAnalysis(result)
Stage3BDone ==
  /\ stageDebugger.pending = "3B"
  /\ StopLoading(
       [stageDebugger EXCEPT
          !.gptAnalysis =
             Some([figmaData |-> stageDebugger.figmaData[1],
                   semanticGrouping |-> stageDebugger.semanticGrouping[1]])],
       "")
  /\ DebuggerFrame

\* analyzeSemanticGroups threw
Stage3BFailed ==
  /\ stageDebugger.pending = "3B"
  /\ StopLoading(stageDebugger, "Stage 3B failed")
  /\ DebuggerFrame

InitDebugger ==
  /\ stageDebugger = NoDebugger
  /\ components = <<>>
  /\ pc = "idle"
  /\ groupCall = "none"
  /\ grouping = NoResult
  /\ probeCall = "none"
  /\ visionCall = "none"
  /\ analysis = NoResult
  /\ activeStep = 0
  /\ isProcessing = FALSE
  /\ error = ""
  /\ screenStatus = "processing"
  /\ groupRequests = 0
  /\ visionRequests = 0
  /\ designTokens = NoTokens
  /\ assetUrls = {}
  /\ styleMapping = NoResult
  /\ mapLog = <<>>
  /\ runs = <<>>
  /\ figmaFile = NoResult
  /\ autoMap = NoResult
  /\ clusters = NoResult
  /\ verticalSections = NoResult

NextDebugger ==
  \/ ClickFetch
  \/ FetchDone
  \/ FetchFailed
  \/ ClickStage3A
  \/ Stage3ADone
  \/ ClickStage3B
  \/ Stage3BDone
  \/ Stage3BFailed

SpecDebugger == InitDebugger /\ [][NextDebugger]_vars

----------------------------------------------------------------------------
(* Claims *)

HasGrouping == "groups" \in DOMAIN grouping
HasAnalysis == "components" \in DOMAIN analysis

\* the descriptors (positions) held by group i of the grouping result
ChildrenOf(i) == Range(grouping.groups[i].children)

DistinctIds ==
  \A i, j \in 1..Len(components) :
     i # j => components[i].id # components[j].id

\* C1: in every GroupingResult returned by group(), on the success path (with
\* or without repair) and on the fallback path, groupedNodes plus the number
\* of ungroupedNodes equals totalNodes, the number of input descriptors.
C1_NodeCountsAddUp ==
  HasGrouping =>
    /\ grouping.totalNodes = Len(components)
    /\ grouping.groupedNodes + Len(grouping.ungroupedNodes) = grouping.totalNodes

\* a success-path result on more than 15 descriptors in which the empty
\* "Total Display" group was repaired and some descriptors stay ungrouped
C1_Witness ==
  /\ HasGrouping
  /\ groupCall = "object"
  /\ Len(components) > FallbackGroupLimit
  /\ grouping.ungroupedNodes # <<>>
  /\ grouping.groupedNodes > 0
  /\ \E i \in 1..Len(grouping.groups) :
        /\ grouping.groups[i].name = "Total Display"
        /\ grouping.groups[i].children # <<>>

\* C2: in every GroupingResult returned by group(), every descriptor appears
\* in at most one group's children.
C2_ChildInAtMostOneGroup ==
  HasGrouping =>
    \A i, j \in 1..Len(grouping.groups) :
       i # j => ChildrenOf(i) \cap ChildrenOf(j) = {}

\* C3: no group with empty children is present in the GroupingResult returned
\* by group(), and none reaches the AnalysisResult: every component the
\* validator derives from a group has a member descriptor as its provenance.
C3_NoEmptyGroupSurfaces ==
  /\ HasGrouping =>
       \A i \in 1..Len(grouping.groups) : grouping.groups[i].children # <<>>
  /\ (HasAnalysis /\ visionCall \in CallFailures) =>
       \A k \in 1..Len(analysis.components) :
          analysis.components[k].figmaNodeId # None

\* C4: every SemanticGroup.confidence and the GroupingResult.confidence
\* returned by group() lie in [0.1, 1.0], whatever numeric confidence the
\* model returns (negative, zero, above 1, absent) and on the fallback path.
C4_GroupingConfidenceInRange ==
  HasGrouping =>
    /\ grouping.confidence \in MinConfidence..MaxConfidence
    /\ \A i \in 1..Len(grouping.groups) :
          grouping.groups[i].confidence \in MinConfidence..MaxConfidence

\* a success-path result whose own confidence was raised to 0.1 and that has
\* a group lowered to 1.0 and a group raised to 0.1
C4_Witness ==
  /\ HasGrouping
  /\ groupCall = "object"
  /\ grouping.confidence = MinConfidence
  /\ \E i, j \in 1..Len(grouping.groups) :
        /\ grouping.groups[i].confidence = MaxConfidence
        /\ grouping.groups[j].confidence = MinConfidence

\* C5: AnalysisResult.confidence returned by validate() lies in [0.1, 1.0] on
\* every path, whatever confidence a parsed response carries.
C5_AnalysisConfidenceInRange ==
  HasAnalysis => analysis.confidence \in MinConfidence..MaxConfidence

\* C6: every component of the AnalysisResult returned by validate() carries a
\* target mapping component name, also when the response omits the mapping.
C6_EveryComponentMapped ==
  HasAnalysis =>
    \A k \in 1..Len(analysis.components) :
       analysis.components[k].materialUIMapping # None

\* C7: group() never raises because of the reasoning-model call: after a
\* transport error, a non-success status, a parse failure, or a response that
\* fails while being validated, it has returned the fallback GroupingResult;
\* after any other response it has returned a GroupingResult.
C7_GroupNeverRaises ==
  /\ groupCall \in CallFailures \cup {"null"} =>
       /\ pc = "probe"
       /\ grouping = createFallbackResult(components)
  /\ groupCall = "object" => pc = "probe" /\ HasGrouping

\* the response parsed to a value validateAndEnhanceResult throws on, and
\* group() returned the fallback result for a non-empty descriptor list
C7_Witness ==
  /\ groupCall = "null"
  /\ pc = "probe"
  /\ HasGrouping
  /\ grouping.confidence = FallbackConfidence
  /\ grouping.groups # <<>>

\* the causes of a failed run that are not a model call
NonModelCauses == {"figma", "save"}

\* C8: a failure of either external model call is never a hard failure of the
\* run: the run is not ended by its catch block, and the screen is not put in
\* the 'error' state, because of a model call.
C8_ModelCallFailureNotFatal ==
  (pc = "failed" /\ screenStatus = "error") => error \in NonModelCauses

\* the fixed table of C9
C9_TargetOf(type) ==
  CASE type = "button" -> "Button"
    [] type = "text" -> "Typography"
    [] type = "card" -> "Card"
    [] type = "navigation" -> "AppBar"
    [] type = "input" -> "TextField"
    [] type = "list" -> "List"
    [] type = "image" -> "Avatar"
    [] type = "container" -> "Box"
    [] OTHER -> "Box"

\* C9: on any failure of the vision-model call validate() returns the
\* fallback: one component per group, in group order, with the group's id,
\* type, name and bounds and the target component of the fixed table.
C9_VisionFailureGivesFallback ==
  visionCall \in CallFailures =>
    /\ HasAnalysis
    /\ Len(analysis.components) = Len(grouping.groups)
    /\ \A k \in 1..Len(grouping.groups) :
          LET c == analysis.components[k]
              g == grouping.groups[k]
          IN  /\ c.id = g.id
              /\ c.type = g.type
              /\ c.name = g.name
              /\ c.bounds = g.bounds
              /\ c.materialUIMapping = Some([component |-> C9_TargetOf(g.type)])

\* C10: when the reasoning call fails on n descriptors with distinct ids,
\* group() returns confidence 0.5 and min(n, 15) groups, the i-th holding
\* exactly the i-th descriptor with confidence 0.5, and ungroupedNodes is
\* exactly the descriptors after the 15th, in order.
C10_FallbackGrouping ==
  (groupCall \in CallFailures /\ DistinctIds) =>
    /\ HasGrouping
    /\ grouping.confidence = 5
    /\ Len(grouping.groups) = Min(Len(components), 15)
    /\ \A i \in 1..Len(grouping.groups) :
          /\ grouping.groups[i].children = <<i>>
          /\ grouping.groups[i].confidence = 5
    /\ grouping.ungroupedNodes =
         [k \in 1..Max(0, Len(components) - 15) |-> 15 + k]

\* the reasoning call failed on 20 descriptors: 15 groups, 5 ungrouped
C10_Witness ==
  /\ groupCall \in CallFailures
  /\ DistinctIds
  /\ Len(components) = 20
  /\ Len(grouping.groups) = 15
  /\ Len(grouping.ungroupedNodes) = 5

\* validate() took its fallback: the vision call failed, or its response
\* parsed to a value whose fields cannot be read
VisionFallbackTaken == visionCall \in CallFailures \cup {"null"}

\* C11: when validate() takes its fallback, it returns an AnalysisResult whose
\* confidence is max(0.6, groupingResult.confidence); when both model calls
\* failed in the run (grouping confidence 0.5) the final confidence is 0.6.
C11_FallbackConfidence ==
  /\ VisionFallbackTaken =>
       /\ HasAnalysis
       /\ analysis.confidence = Max(6, grouping.confidence)
  /\ (VisionFallbackTaken /\ groupCall \in CallFailures) =>
       (HasAnalysis /\ analysis.confidence = 6)

\* the part of C11 the code keeps: whenever the fallback returns a result,
\* its confidence is max(0.6, groupingResult.confidence)
C11_ConfidenceOfReturnedFallback ==
  (VisionFallbackTaken /\ HasAnalysis) =>
    analysis.confidence = Max(6, grouping.confidence)

\* C12: within one run, the grouping stage and the visual-validation stage
\* each issue exactly one request to their model: never a second one, and
\* one once the stage has produced its result.
C12_OneRequestPerStage ==
  /\ groupRequests <= 1
  /\ visionRequests <= 1
  /\ HasGrouping => groupRequests = 1
  /\ HasAnalysis => visionRequests = 1

\* C13: for one screen at most one run of startFigmaProcessing is in flight
\* at any time.
C13_AtMostOneRunInFlight == Cardinality(InFlight) <= 1

\* C14: every run that has started eventually finishes, also when a model
\* call never responds.
C14_EveryRunFinishes ==
  \A r \in 1..MaxRuns :
     (Len(runs) >= r) ~> (Len(runs) >= r /\ runs[r] \in RunFinal)

\* C15: the Style Mapper is invoked only after the Visual Validator has
\* produced its result, and on the validated components.
C15_StyleMapperAfterValidator ==
  \A k \in 1..Len(mapLog) :
     /\ HasAnalysis
     /\ mapLog[k].comps = analysis.components

\* C16: in any AnalysisResult no two components carry the same descriptor id
\* as their provenance (figmaNodeId).
C16_OneComponentPerDescriptor ==
  HasAnalysis =>
    \A j, k \in 1..Len(analysis.components) :
       (j # k /\ analysis.components[j].figmaNodeId # None)
         => analysis.components[j].figmaNodeId # analysis.components[k].figmaNodeId

\* C17: the Style Mapper returns exactly one MappedComponent per input
\* component, in input order, carrying the input's id and name.
C17_OneMappedPerInput ==
  \A k \in 1..Len(mapLog) :
     LET in == mapLog[k].comps
         out == mapLog[k].out.components
     IN  /\ Len(out) = Len(in)
         /\ \A i \in 1..Len(in) :
               out[i].id = in[i].id /\ out[i].name = in[i].name

\* the Style Mapper was called on three components two of which share an id,
\* one of which it maps to Box and one of which has an asset URL
C17_Witness ==
  \E k \in 1..Len(mapLog) :
     LET in == mapLog[k].comps
         out == mapLog[k].out.components
     IN  /\ Len(in) = 3
         /\ in[1].id = in[2].id
         /\ \E i \in 1..Len(out) : out[i].muiComponent = "Box"
         /\ \E i \in 1..Len(out) : out[i].imageUrl # None

C19_FencedResponseParsed ==
  groupCall = "fenced" =>
    grouping = validateAndEnhanceResult(FencedObject, 1, components).val

AutoMapped == "after" \in DOMAIN autoMap

\* group i of the call had no children and was repaired
Repaired(i) == autoMap.before[i].children = <<>>

\* the descriptors (positions) group i holds after the call
ClaimedBy(i) == Range(autoMap.after[i].children)

\* C21: during auto-repair no descriptor is claimed twice: the sets of
\* descriptors assigned to two different repaired groups of one call are
\* disjoint.
C21_RepairsAreDisjoint ==
  AutoMapped =>
    \A i, j \in 1..Len(autoMap.after) :
       (i # j /\ Repaired(i) /\ Repaired(j))
         => ClaimedBy(i) \cap ClaimedBy(j) = {}

\* two groups were repaired, the second from what the first left in the pool
C21_Witness ==
  /\ AutoMapped
  /\ \E i, j \in 1..Len(autoMap.after) :
        /\ i < j /\ Repaired(i) /\ Repaired(j)
        /\ autoMap.before[i] = autoMap.before[j]
        /\ ClaimedBy(i) # {} /\ ClaimedBy(j) # {}

\* descriptor c is a text node of the bottom band that contains "$96"
IsTotalLabel(c) ==
  /\ components[c].type = "TEXT"
  /\ optIncludes(components[c].characters, "$96")
  /\ components[c].bounds.y >= 400 /\ components[c].bounds.y < 500

\* C22: when the groups contain one group named "Total Display" with empty
\* children and the descriptors include a bottom-band text node containing
\* "$96", the repair assigns that descriptor to the group, whichever other
\* groups there are and in whichever order they are repaired.
C22_TotalDisplayGetsTotalLabel ==
  AutoMapped =>
    \A i \in 1..Len(autoMap.after) :
       (/\ autoMap.before[i].name = "Total Display"
        /\ Repaired(i)
        /\ \A j \in 1..Len(autoMap.after) :
              j # i => autoMap.before[j].name # "Total Display")
         => \A c \in 1..Len(components) :
               IsTotalLabel(c) => c \in ClaimedBy(i)

\* the distance autoMapComponentsToGroups measures between a group's declared
\* bounds and descriptor c
RepairDistance(i, c) ==
  Abs(components[c].bounds.x - autoMap.before[i].bounds.x)
    + Abs(components[c].bounds.y - autoMap.before[i].bounds.y)

\* the descriptors no earlier repair of the call has claimed
UnclaimedBefore(i) ==
  {c \in 1..Len(components) :
     \A j \in 1..(i - 1) : Repaired(j) => c \notin ClaimedBy(j)}

\* C23: the repair of an unnamed or unrecognized empty group claims the
\* nearest unclaimed descriptors within 100px of the group's declared bounds,
\* at most 3 of them: no claimed descriptor is 100px away or farther, and no
\* unclaimed descriptor within 100px is nearer than a claimed one.
C23_ClaimsNearestThree ==
  AutoMapped =>
    \A i \in 1..Len(autoMap.after) :
       (Repaired(i) /\ autoMap.before[i].name \in {"Unnamed Group", "Promo"})
         => /\ Cardinality(ClaimedBy(i)) <= 3
            /\ ClaimedBy(i) \subseteq UnclaimedBefore(i)
            /\ \A c \in ClaimedBy(i) : RepairDistance(i, c) < 100
            /\ \A u \in UnclaimedBefore(i) \ ClaimedBy(i) :
                  RepairDistance(i, u) < 100
                    => \A c \in ClaimedBy(i) :
                          RepairDistance(i, c) <= RepairDistance(i, u)

\* the responses with a child id that matches no descriptor
UnknownIdResponses ==
  {result \in GroupingResponses :
     /\ result.kind = "object" /\ result.groups # None
     /\ \E i \in 1..Len(result.groups[1]) :
           UnknownId \in Range(result.groups[1][i].children)}

\* C24: child ids of the model's response that match no descriptor of the run
\* are dropped without error: group() returns the model's groups, not the
\* fallback, for every such response. Every child of every group in any
\* GroupingResult is one of the descriptors passed to group().
C24_UnknownChildIdsDropped ==
  /\ HasGrouping =>
       \A i \in 1..Len(grouping.groups) :
          /\ ChildrenOf(i) \subseteq 1..Len(components)
          /\ \A c \in ChildrenOf(i) : components[c].id # UnknownId
  /\ pc = "groupAwait" =>
       \A result \in UnknownIdResponses : \A rnd \in RandomDraws :
          \E r \in {groupComponents("ok", result, rnd, components)} :
             /\ r.ok
             /\ Len(r.val.groups) = Len(result.groups[1])
             /\ \A i \in 1..Len(r.val.groups) :
                   r.val.groups[i].id.src # "fallback"

\* group() returned the model's groups for a response whose only child id
\* matched none of the descriptors
C24_Witness ==
  /\ groupCall = "object"
  /\ pc = "probe"
  /\ HasGrouping
  /\ components # <<>>
  /\ \E i \in 1..Len(grouping.groups) :
        /\ grouping.groups[i].id = [src |-> "model", v |-> "g-promo"]
        /\ grouping.groups[i].children = <<>>

\* the helper has been called and has returned
Returned(call) == "val" \in DOMAIN call

\* the centre of descriptor c
CenterOf(c) ==
  [x |-> 2 * components[c].bounds.x + components[c].bounds.width,
   y |-> 2 * components[c].bounds.y + components[c].bounds.height]

\* descriptors a and b are less than 100px apart, centre to centre (the
\* centres are kept doubled, so the bound is 200)
Adjacent(a, b) ==
  a # b /\ (CenterOf(a).x - CenterOf(b).x) * (CenterOf(a).x - CenterOf(b).x)
           + (CenterOf(a).y - CenterOf(b).y) * (CenterOf(a).y - CenterOf(b).y)
           < 200 * 200

RECURSIVE ReachableFrom(_)
\* the descriptors connected to those of set S in the proximity graph
ReachableFrom(S) ==
  LET next == S \cup {b \in 1..Len(components) : \E a \in S : Adjacent(a, b)}
  IN  IF next = S THEN S ELSE ReachableFrom(next)

\* the connected components of the proximity graph with two members or more
ProximityComponents ==
  {C \in {ReachableFrom({c}) : c \in 1..Len(components)} : Cardinality(C) >= 2}

\* C25: findSpatialClusters returns the connected components, of size at
\* least 2, of the graph in which two descriptors are adjacent iff their
\* centres are less than 100px apart, also when proximity is only transitive.
C25_ClustersAreConnectedComponents ==
  Returned(clusters) =>
    /\ {Range(clusters.val[k]) : k \in 1..Len(clusters.val)}
         = ProximityComponents
    /\ \A k, l \in 1..Len(clusters.val) :
          k # l => Range(clusters.val[k]) # Range(clusters.val[l])

\* C25, the scenario: descriptors at (10,10), (20,15) and (500,500) give one
\* cluster of the first two
C25_ScenarioC ==
  (/\ Returned(clusters)
   /\ Len(components) = 3
   /\ [i \in 1..3 |-> <<components[i].bounds.x, components[i].bounds.y>>]
        = << <<10, 10>>, <<20, 15>>, <<500, 500>> >>)
    => clusters.val = << <<1, 2>> >>

\* the sections as one sequence of descriptors
RECURSIVE FlatSections(_)
FlatSections(sections) ==
  IF sections = <<>> THEN <<>>
  ELSE Head(sections).components \o FlatSections(Tail(sections))

\* the section that holds the k-th descriptor of the flattened sections
SectionOf(sections, k) ==
  CHOOSE s \in 1..Len(sections) :
     LET before == Len(FlatSections(SubSeq(sections, 1, s - 1)))
     IN  before < k /\ k <= before + Len(sections[s].components)

\* C26: identifyVerticalSections sorts the descriptors by top edge and starts
\* a new section exactly between consecutive descriptors whose gap (next top
\* edge minus current bottom edge) exceeds 50px; every descriptor lands in
\* exactly one section.
C26_SectionsSplitAtGaps ==
  Returned(verticalSections) =>
    LET flat == FlatSections(verticalSections.val)
        sections == verticalSections.val
        top(k) == components[flat[k]].bounds.y
        bottom(k) == top(k) + components[flat[k]].bounds.height
    IN  /\ Len(flat) = Len(components)
        /\ Range(flat) = 1..Len(components)
        /\ \A s \in 1..Len(sections) : sections[s].components # <<>>
        /\ \A k \in 1..(Len(flat) - 1) :
              /\ top(k) <= top(k + 1)
              /\ SectionOf(sections, k) # SectionOf(sections, k + 1)
                   <=> top(k + 1) - bottom(k) > 50

\* nodes at y = 0, 20, 40 and 300 were split into exactly two sections, the
\* first three nodes in one and the last in the other
C26_Witness ==
  /\ Returned(verticalSections)
  /\ Len(components) = 4
  /\ {components[i].bounds.y : i \in 1..4} = {0, 20, 40, 300}
  /\ components[1].bounds.y = 300
  /\ Len(verticalSections.val) = 2
  /\ Len(verticalSections.val[1].components) = 3
  /\ verticalSections.val[2].components = <<1>>

\* the file has been analysed
Extracted == "n" \in DOMAIN figmaFile /\ pc = "returned"

RECURSIVE AncestorsOf(_)
\* node i and the nodes above it
AncestorsOf(i) ==
  IF i = 1 THEN {1} ELSE {i} \cup AncestorsOf(figmaFile.parent[i])

\* node a comes before node b in a depth-first, parent-first walk: a is
\* above b, or below their last common ancestor a's branch is the earlier one
VisitedBefore(a, b) ==
  \/ a # b /\ a \in AncestorsOf(b)
  \/ /\ a \notin AncestorsOf(b) /\ b \notin AncestorsOf(a)
     /\ \E x \in AncestorsOf(a) \ AncestorsOf(b) :
           \E y \in AncestorsOf(b) \ AncestorsOf(a) :
              /\ figmaFile.parent[x] = figmaFile.parent[y]
              /\ x < y

\* C27: extract() returns exactly the pre-order sequence of the nodes that
\* carry bounds and are not of kind DOCUMENT, CANVAS or SLICE: transparent
\* containers and nodes without geometry give no descriptor, and their
\* children are visited all the same.
C27_ExtractIsPreOrder ==
  Extracted =>
    /\ {components[k].id : k \in 1..Len(components)}
         = {i \in 1..figmaFile.n :
              /\ figmaFile.node[i].box
              /\ figmaFile.node[i].type \notin {"DOCUMENT", "CANVAS", "SLICE"}}
    /\ \A k, l \in 1..Len(components) :
          k < l => VisitedBefore(components[k].id, components[l].id)
    /\ \A k \in 1..Len(components) :
          components[k].type = figmaFile.node[components[k].id].type

\* a descriptor was produced for a node that lies below a frame without
\* geometry, and one for a later branch came after a deeper, earlier one
C27_Witness ==
  /\ Extracted
  /\ \E k \in 1..Len(components) :
        /\ components[k].id > 1
        /\ ~figmaFile.node[figmaFile.parent[components[k].id]].box
        /\ figmaFile.node[figmaFile.parent[components[k].id]].type = "FRAME"
  /\ \E k, l \in 1..Len(components) :
        k < l /\ components[k].id > components[l].id

\* C28: on a successfully parsed vision-model response, validate()
\* cross-references each returned component with its originating
\* SemanticGroup and copies the group's first child id as the component's
\* figmaNodeId. Stated for a component whose id is the id of the only group.
C28_ComponentsCrossReferenced ==
  (visionCall = "object" /\ HasAnalysis /\ HasGrouping) =>
    \A k \in 1..Len(analysis.components) :
       (/\ Len(grouping.groups) = 1
        /\ grouping.groups[1].id.src = analysis.components[k].id.src
        /\ grouping.groups[1].id.v = analysis.components[k].id.v
        /\ grouping.groups[1].children # <<>>)
         => analysis.components[k].figmaNodeId
              = Some(components[grouping.groups[1].children[1]].id)

\* C29: in the Stage Debugger, Stage 3B is only ever executed with a Stage 3A
\* result that exists and was computed from the currently loaded Figma data:
\* fetching Figma data again leaves no older grouping usable by Stage 3B.
C29_Stage3BUsesCurrentGrouping ==
  stageDebugger.pending = "3B" =>
    /\ stageDebugger.semanticGrouping # None
    /\ stageDebugger.figmaData # None
    /\ stageDebugger.semanticGrouping[1].figmaData = stageDebugger.figmaData[1]

====
